---- MODULE Spec2Model ----
(***************************************************************************)
(* WhatsApp Print Manager: the connection/session supervisor of the main   *)
(* process (initWhatsApp, startClient, doRetry, the lifecycle listeners),  *)
(* the reconnect and logout IPC handlers, and the readiness guard of the   *)
(* chat/message IPC handlers.                                              *)
(*                                                                         *)
(* Every await in the source is a step boundary: an async function is one  *)
(* action per stretch of code between two awaits.  Timers (the 45 s        *)
(* initialization timer, the 2 s grace wait, the 1 s logout delay) may     *)
(* fire at any time while armed.  The backend client is an opaque          *)
(* collaborator: its promises settle either way, a destroy() that throws   *)
(* leaves the client running, and a constructed, not yet torn down client  *)
(* emits its lifecycle events in the order                                 *)
(*   qr* -> authenticated -> ready,  auth_failure instead of               *)
(*   authenticated,  disconnected at any point before auth_failure.        *)
(* The status stream is observed through its latest value and through the  *)
(* totals of the supervisor's own statuses.                                *)
(* The main window exists for the whole run (it is created before          *)
(* initWhatsApp and never reset), so every mainWindow?.webContents.send    *)
(* delivers.                                                               *)
(***************************************************************************)
EXTENDS Integers, Sequences, FiniteSets, TLC

\* ---- bounds -------------------------------------------------------------
\* number of reconnect / logout invocations by the user
MaxManual == 2
\* number of destroy() calls that throw
MaxDestroyFailures == 1
\* number of Client objects constructed in one run
MaxClients == 4

\* number of messages the backend returns for the chat
MaxMessages == 3
\* message timestamps are 1..MaxTime
MaxTime == 2
\* number of file paths and of message ids handed to delete-files
MaxTargets == 4
\* number of files that download-file writes in one run
MaxDownloads == 1
\* chats in the backend's chat list
MaxChats == 2
\* lookups of one listing that throw or run into their timeout
MaxFaults == 1
\* files handed to print-with-setup
MaxPrints == 3
\* chats of the sidebar that the user selects
MaxViewChats == 2
\* selectChat calls in one run
MaxSelects == 2
\* refreshChats calls in one run
MaxRefreshes == 3
\* pdf files for which thumbnails are requested
MaxThumbFiles == 2
\* generate-thumbnail invocations in one run
MaxThumbs == 4

\* ---- program constants ---------------------------------------------------
\* "if (attempt < 3)" in doRetry
MaxAttempts == 3

ClientIds == 1..MaxClients
HandlerIds == 1..MaxManual

\* the chat/message IPC channels guarded by the readiness flag
GuardedOps == {"get-unread-chats", "get-all-chats", "get-chat-files",
               "download-file", "download-all-files", "mark-chat-read",
               "get-profile-info"}

NotReadyError == "WhatsApp not ready"

CountedStatuses == {"retrying", "error", "logged_out"}

VARIABLES
  whatsappClient,   \* the global client handle: the id of the latest client
  isClientReady,    \* the global readiness flag
  numClients,       \* number of Client objects constructed so far
  attempt,          \* attempt[c]: the startClient(attempt) argument of client c
  phase,            \* phase[c]: "none" before construction, "new" after it,
                    \* then the last lifecycle event c emitted, and
                    \* "destroyed" once its browser is torn down
  qrEncoding,       \* qrEncoding[c]: a qr listener of c is suspended in
                    \* QRCode.toDataURL
  initState,        \* initState[c]: c's initialize() promise is "pending",
                    \* "ok" or "failed"
  initTimer,        \* initTimer[c]: the 45 s timer of c's startClient is
                    \* "armed", or "off" (it ran or was cleared)
  eventReceived,    \* closure variable of c's startClient
  retryTriggered,   \* closure variable of c's startClient
  retryPc,          \* position of c's doRetry: "idle", "destroy" (awaiting
                    \* destroy()), "wait" (the 2 s timeout), "done"
  retryTarget,      \* the client on which c's doRetry awaits destroy()
  creator,          \* creator[c]: the caller of the initWhatsApp that made c
  lastStatus,       \* the latest value sent on channel whatsapp:status
  statusCount,      \* statusCount[s]: how often "retrying", "error" and
                    \* "logged_out" were sent on whatsapp:status
  qrSent,           \* a data URL was sent on channel whatsapp:qr
  fatalMessages,    \* number of messages sent on channel whatsapp:error
  authDir,          \* the .wwebjs_auth directory: "present" or "absent"
  authClears,       \* number of fs.rmSync(authPath) calls
  numManual,        \* reconnect / logout invocations so far
  handler,          \* handler[m]: the m-th reconnect / logout invocation
  destroyFailures,  \* destroy() calls that threw so far
  lastCall,         \* the latest invocation of a guarded IPC channel
  disk,             \* the files of DOWNLOADS_DIR: a set of paths
  chat,             \* the chat the backend serves: its unreadCount and its
                    \* messages in retrieval order
  job,              \* the indexer / job handler in progress
  listing,          \* the files of the latest get-chat-files reply
  prevListing,      \* the files of the get-chat-files reply before it
  dirty,            \* a download or delete ran since that earlier reply
  reply,            \* the latest reply of download-file / delete-files
  progress,         \* progress notifications sent by the handler in progress
  chats,            \* the chat list the backend's getChats() gives
  ui,               \* the user action in progress in the renderer and the toasts it showed
  retryCalls,       \* retryCalls[c]: how often c's startClient called doRetry
  retryLog,         \* retryLog[c]: the steps that c's doRetry has run, in order
  thumb             \* thumbBusy, thumbQueue and the thumbnail requests made, rendered and resolved

vars == <<whatsappClient, isClientReady, numClients, attempt, phase,
          qrEncoding, initState, initTimer, eventReceived, retryTriggered,
          retryPc, retryTarget, creator, lastStatus, statusCount, qrSent,
          fatalMessages, authDir, authClears, numManual, handler, lastCall,
          destroyFailures, disk, chat, job, listing, prevListing, dirty,
          reply,
          progress,
          chats,
          ui,
          retryCalls,
          retryLog,
          thumb>>

jobVars == <<disk, chat, job, listing, prevListing, dirty, reply,
            progress,
            chats,
            ui,
            thumb>>

clientVars == <<numClients, attempt, phase, qrEncoding, initState, initTimer,
                eventReceived, retryTriggered, retryPc, retryTarget, creator,
                retryCalls,
                retryLog>>

channelVars == <<lastStatus, statusCount, qrSent, fatalMessages>>

Constructed(c) == c <= numClients

\* c is constructed and its browser is not torn down
alive(c) == phase[c] \notin {"none", "destroyed"}

NoHandler == [kind |-> "none", pc |-> "idle", target |-> 0, result |-> "none",
              overlapped |-> FALSE, duringRetry |-> {}]

NoCall == [op |-> "none", readyAtCall |-> FALSE, result |-> "none",
           backend |-> 0]

\* mainWindow?.webContents.send("whatsapp:status", s)
sendStatus(s) ==
  /\ lastStatus' = s
  /\ statusCount' = IF s \in CountedStatuses
                    THEN [statusCount EXCEPT ![s] = @ + 1]
                    ELSE statusCount

\* the effect of a destroy() call on client t that settles: torn down when
\* it resolves, untouched when it throws
destroyed(ph, t, ok) ==
  IF ok /\ ph[t] # "none" THEN [ph EXCEPT ![t] = "destroyed"] ELSE ph

\* the outcomes a destroy() call may still have: TRUE when it resolves
Outcomes == IF destroyFailures < MaxDestroyFailures THEN BOOLEAN ELSE {TRUE}

Failures(ok) == IF ok THEN destroyFailures ELSE destroyFailures + 1

\* ---- messages, file names and paths ---------------------------------------
\* a file name is a pair: <<"data", n>> is a name the sender gave
\* (msg._data.fileName, media.filename, the fileName argument),
\* <<"type", t>> is `${type}_${timestamp}.${ext}`, <<"now", 0>> is
\* `file_${Date.now()}.${ext}`, and NoName is null / undefined
NoName == <<"none", 0>>

GivenNames == {<<"data", 1>>, <<"data", 2>>}

\* a serialized message id is a sequence of characters; the i-th message the
\* backend returns has the id "m@x", "m@xx", ...
AlphaNum == {"m", "x"}

MsgId(i) == <<"m", "@">> \o [j \in 1..i |-> "x"]

\* messageId.replace(/[^a-zA-Z0-9]/g, "_")
safeMsgId(id) == [j \in DOMAIN id |-> IF id[j] \in AlphaNum THEN id[j] ELSE "_"]

\* path.join(DOWNLOADS_DIR, `${safeMsgId}_${fileName}`)
localPath(id, fileName) == <<safeMsgId(id), fileName>>

Timestamps == 1..MaxTime

\* the chats the backend may serve: up to MaxMessages messages with unique
\* ids and any timestamps; a message has no media, or media with or without
\* a sender-given file name
MessageKinds ==
  {k \in [timestamp : Timestamps, hasMedia : BOOLEAN,
          fileName : {NoName, <<"data", 1>>}] :
     k.fileName # NoName => k.hasMedia}

Messages(n) ==
  {[i \in 1..n |-> [id |-> MsgId(i), timestamp |-> kinds[i].timestamp,
                    hasMedia |-> kinds[i].hasMedia,
                    fileName |-> kinds[i].fileName]] :
     kinds \in [1..n -> MessageKinds]}

Chats ==
  {[unreadCount |-> k, messages |-> ms] :
     k \in 0..(MaxMessages + 1),
     ms \in UNION {Messages(n) : n \in 0..MaxMessages}}

NoChat == [unreadCount |-> 0, messages |-> <<>>]

Min(a, b) == IF a < b THEN a ELSE b

\* a string that is empty or missing (falsy)
NoStr == <<"", 0>>

\* the renderer after its script was loaded: no user action has been
\* started, no chat is selected (currentChatId = null is 0), no request is
\* in flight; pending, selects, inFlight, calls, dropped and settled
\* observe the getChatFiles and getUnreadChats requests
NoUi == [action |-> "none", pc |-> "idle", toasts |-> {}, result |-> "none",
         m |-> 0,
         currentChatId |-> 0, currentFiles |-> {}, selectedFiles |-> {},
         pending |-> {}, selects |-> 0,
         isRefreshing |-> FALSE, inFlight |-> 0, calls |-> 0, dropped |-> 0,
         settled |-> {}]

\* the locals of the listing callback of one chat
NoEntry == [id |-> NoStr, name |-> NoStr, number |-> NoStr,
            whatsappName |-> NoStr, unreadCount |-> 0, profilePicUrl |-> NoStr,
            timestamp |-> 0, lastMessage |-> NoStr, failed |-> {},
            timedOut |-> {}]

NoJob == [op |-> "none", pc |-> "idle", client |-> 0, args |-> <<>>, i |-> 0,
          stale |-> FALSE, timer |-> FALSE, cur |-> NoEntry, faults |-> 0,
          list |-> <<>>, limit |-> 0]

NoPath == <<<<>>, NoName>>

\* the thumbnail generator at application start: thumbBusy = false, an
\* empty thumbQueue, no thumbnail on disk; requests counts the
\* generate-thumbnail invocations, answered holds those answered without
\* rendering, rendering the renders in progress, resolved the resolve()
\* calls of processThumbQueue in their order
NoThumb == [busy |-> FALSE, queue |-> <<>>, thumbnails |-> {},
            requests |-> 0, answered |-> {}, rendering |-> {},
            resolved |-> <<>>]

NoListing == [taken |-> FALSE, files |-> <<>>, unreadMsgIds |-> {},
              afterChange |-> FALSE]

NoReply == [op |-> "none", results |-> <<>>, waResults |-> <<>>,
            messageId |-> <<>>, localPath |-> NoPath, backendCalls |-> 0,
            filePaths |-> <<>>, messageIds |-> <<>>, chatId |-> FALSE,
            ready |-> FALSE, error |-> "", chats |-> <<>>,
            limit |-> 0, dispatched |-> <<>>]

\* ---- initWhatsApp --------------------------------------------------------
\* initWhatsApp calling startClient on the client object it already has
initWhatsApp_Reuses(retryAttempt, by, phaseNow) ==
  LET c == whatsappClient IN
  /\ numClients < MaxClients
  /\ UNCHANGED <<numClients, whatsappClient>>
  /\ attempt' = [attempt EXCEPT ![c] = retryAttempt]
  /\ phase' = [phaseNow EXCEPT ![c] = "new"]
  /\ initState' = [initState EXCEPT ![c] = "pending"]
  /\ initTimer' = [initTimer EXCEPT ![c] = "armed"]
  /\ creator' = [creator EXCEPT ![c] = by]
  /\ authDir' = "present"
  /\ UNCHANGED <<qrEncoding, eventReceived>>

\* new Client(...), the listeners, and startClient(retryAttempt) up to its
\* first await: the fresh closure (eventReceived = retryTriggered = false),
\* the armed timer and the pending initialize() call.  LocalAuth creates the
\* auth-storage directory when initialize() starts.  phaseNow is the value
\* of phase after the earlier statements of the same step.  The run is cut
\* off at MaxClients constructed clients.
initWhatsApp(retryAttempt, by, phaseNow) ==
  LET c == numClients + 1 IN
  /\ numClients < MaxClients
  /\ numClients' = c
  /\ whatsappClient' = c
  /\ attempt' = [attempt EXCEPT ![c] = retryAttempt]
  /\ phase' = [phaseNow EXCEPT ![c] = "new"]
  /\ initState' = [initState EXCEPT ![c] = "pending"]
  /\ initTimer' = [initTimer EXCEPT ![c] = "armed"]
  /\ creator' = [creator EXCEPT ![c] = by]
  /\ authDir' = "present"
  /\ UNCHANGED <<qrEncoding, eventReceived>>

\* the supervisor after app.whenReady(): the window exists and
\* initWhatsApp() ran
Boot ==
  /\ whatsappClient = 1
  /\ isClientReady = FALSE
  /\ numClients = 1
  /\ attempt = [c \in ClientIds |-> IF c = 1 THEN 1 ELSE 0]
  /\ phase = [c \in ClientIds |-> IF c = 1 THEN "new" ELSE "none"]
  /\ qrEncoding = [c \in ClientIds |-> FALSE]
  /\ initState = [c \in ClientIds |-> IF c = 1 THEN "pending" ELSE "none"]
  /\ initTimer = [c \in ClientIds |-> IF c = 1 THEN "armed" ELSE "off"]
  /\ eventReceived = [c \in ClientIds |-> FALSE]
  /\ retryTriggered = [c \in ClientIds |-> FALSE]
  /\ retryPc = [c \in ClientIds |-> "idle"]
  /\ retryTarget = [c \in ClientIds |-> 0]
  /\ retryLog = [c \in ClientIds |-> <<>>]
  /\ retryCalls = [c \in ClientIds |-> 0]
  /\ creator = [c \in ClientIds |->
                  IF c = 1 THEN <<"start", 0>> ELSE <<"none", 0>>]
  /\ lastStatus = "none"
  /\ statusCount = [s \in CountedStatuses |-> 0]
  /\ qrSent = FALSE
  /\ fatalMessages = 0
  /\ authDir = "present"
  /\ authClears = 0
  /\ numManual = 0
  /\ handler = [m \in HandlerIds |-> NoHandler]
  /\ lastCall = NoCall
  /\ destroyFailures = 0

\* the state after app.whenReady(), with an empty downloads directory
Init ==
  /\ Boot
  /\ disk = {}
  /\ chat = NoChat
  /\ job = NoJob
  /\ listing = NoListing
  /\ prevListing = NoListing
  /\ dirty = FALSE
  /\ reply = NoReply
  /\ thumb = NoThumb
  /\ ui = NoUi
  /\ chats = <<>>
  /\ progress = <<>>

\* ---- lifecycle listeners (registered on each client by initWhatsApp) ------
\* whatsappClient.once(ev, markEventReceived) of startClient
markEventReceived(c) == eventReceived' = [eventReceived EXCEPT ![c] = TRUE]

\* "qr": the listener suspends in QRCode.toDataURL before it sends
OnQr(c) ==
  /\ alive(c)
  /\ phase[c] \in {"new", "qr"}
  /\ ~qrEncoding[c]
  /\ phase' = [phase EXCEPT ![c] = "qr"]
  /\ qrEncoding' = [qrEncoding EXCEPT ![c] = TRUE]
  /\ markEventReceived(c)
  /\ UNCHANGED <<whatsappClient, isClientReady, numClients, attempt,
                 initState, initTimer, retryTriggered, retryPc, retryTarget,
                 creator, channelVars, authDir, authClears, numManual,
                 handler, lastCall, destroyFailures,
                 jobVars,
                 retryCalls,
                 retryLog>>

\* the rest of the "qr" listener: send the data URL, or log the encoder error
QrEncoded(c) ==
  /\ qrEncoding[c]
  /\ qrEncoding' = [qrEncoding EXCEPT ![c] = FALSE]
  /\ \E ok \in BOOLEAN : qrSent' = (qrSent \/ ok)
  /\ UNCHANGED <<whatsappClient, isClientReady, numClients, attempt, phase,
                 initState, initTimer, eventReceived, retryTriggered,
                 retryPc, retryTarget, creator, lastStatus, statusCount,
                 fatalMessages, authDir, authClears, numManual, handler,
                 lastCall, destroyFailures,
                 jobVars,
                 retryCalls,
                 retryLog>>

OnAuthenticated(c) ==
  /\ alive(c)
  /\ phase[c] \in {"new", "qr"}
  /\ phase' = [phase EXCEPT ![c] = "authenticated"]
  /\ sendStatus("authenticated")
  /\ markEventReceived(c)
  /\ UNCHANGED <<whatsappClient, isClientReady, numClients, attempt,
                 qrEncoding, initState, initTimer, retryTriggered, retryPc,
                 retryTarget, creator, qrSent, fatalMessages, authDir,
                 authClears, numManual, handler, lastCall,
                 destroyFailures,
                 jobVars,
                 retryCalls,
                 retryLog>>

OnReady(c) ==
  /\ alive(c)
  /\ phase[c] = "authenticated"
  /\ phase' = [phase EXCEPT ![c] = "ready"]
  /\ isClientReady' = TRUE
  /\ sendStatus("ready")
  /\ markEventReceived(c)
  /\ UNCHANGED <<whatsappClient, numClients, attempt, qrEncoding, initState,
                 initTimer, retryTriggered, retryPc, retryTarget, creator,
                 qrSent, fatalMessages, authDir, authClears, numManual,
                 handler, lastCall, destroyFailures,
                 jobVars,
                 retryCalls,
                 retryLog>>

OnDisconnected(c) ==
  /\ alive(c)
  /\ phase[c] \in {"new", "qr", "authenticated", "ready"}
  /\ phase' = [phase EXCEPT ![c] = "disconnected"]
  /\ isClientReady' = FALSE
  /\ sendStatus("disconnected")
  /\ UNCHANGED <<whatsappClient, numClients, attempt, qrEncoding, initState,
                 initTimer, eventReceived, retryTriggered, retryPc,
                 retryTarget, creator, qrSent, fatalMessages, authDir,
                 authClears, numManual, handler, lastCall,
                 destroyFailures,
                 jobVars,
                 retryCalls,
                 retryLog>>

\* the auth_failure listener sends the status and leaves isClientReady alone
OnAuthFailure(c) ==
  /\ alive(c)
  /\ phase[c] \in {"new", "qr"}
  /\ phase' = [phase EXCEPT ![c] = "auth_failure"]
  /\ sendStatus("auth_failure")
  /\ markEventReceived(c)
  /\ UNCHANGED <<whatsappClient, isClientReady, numClients, attempt,
                 qrEncoding, initState, initTimer, retryTriggered, retryPc,
                 retryTarget, creator, qrSent, fatalMessages, authDir,
                 authClears, numManual, handler, lastCall,
                 destroyFailures,
                 jobVars,
                 retryCalls,
                 retryLog>>

\* ---- startClient / doRetry ------------------------------------------------
\* clearTimeout(initTimer)
clearTimeout(c) == initTimer' = [initTimer EXCEPT ![c] = "off"]

\* doRetry without "if (retryTriggered) return"
doRetry_Unguarded(c) ==
  /\ retryCalls' = [retryCalls EXCEPT ![c] = @ + 1]
  /\ retryTriggered' = [retryTriggered EXCEPT ![c] = TRUE]
  /\ retryPc' = [retryPc EXCEPT ![c] = "destroy"]
  /\ retryTarget' = [retryTarget EXCEPT ![c] = whatsappClient]

\* doRetry up to "await whatsappClient.destroy()": the retryTriggered guard,
\* then destroy() is called on whatever client the global handle names now
doRetry(c) ==
  /\ retryCalls' = [retryCalls EXCEPT ![c] = @ + 1]
  /\ IF retryTriggered[c]
     THEN UNCHANGED <<retryTriggered, retryPc, retryTarget>>
     ELSE /\ retryTriggered' = [retryTriggered EXCEPT ![c] = TRUE]
          /\ retryPc' = [retryPc EXCEPT ![c] = "destroy"]
          /\ retryTarget' = [retryTarget EXCEPT ![c] = whatsappClient]

\* doRetry with the bound off by one
MayRetry_OffByOne(c) == attempt[c] <= MaxAttempts

\* "if (attempt < 3)" of doRetry
MayRetry(c) == attempt[c] < MaxAttempts

\* doRetry removing the auth-storage directory on every retry
ClearsAuth_Always(c) == TRUE

\* "if (!eventReceived)" of doRetry: the auth-storage directory is removed
ClearsAuth(c) == ~eventReceived[c]

\* the timer callback retrying whatever was observed
TimerRetries_Always(c) == TRUE

\* "if (!eventReceived)" of the timer callback
TimerRetries(c) == ~eventReceived[c]

\* "await whatsappClient.initialize()" returns normally
InitializeResolves(c) ==
  /\ alive(c)
  /\ initState[c] = "pending"
  /\ initState' = [initState EXCEPT ![c] = "ok"]
  /\ clearTimeout(c)
  /\ UNCHANGED <<whatsappClient, isClientReady, numClients, attempt, phase,
                 qrEncoding, eventReceived, retryTriggered, retryPc,
                 retryTarget, creator, channelVars, authDir, authClears,
                 numManual, handler, lastCall, destroyFailures,
                 jobVars,
                 retryCalls,
                 retryLog>>

\* "await whatsappClient.initialize()" throws, also after the client was
\* torn down under the pending call: the catch block
InitializeRejects(c) ==
  /\ Constructed(c)
  /\ initState[c] = "pending"
  /\ initState' = [initState EXCEPT ![c] = "failed"]
  /\ clearTimeout(c)
  /\ doRetry(c)
  /\ UNCHANGED <<whatsappClient, isClientReady, numClients, attempt, phase,
                 qrEncoding, eventReceived, creator, channelVars, authDir,
                 authClears, numManual, handler, lastCall,
                 destroyFailures,
                 jobVars,
                 retryLog>>

\* the setTimeout(..., INIT_TIMEOUT_MS) callback
InitTimerFires(c) ==
  /\ Constructed(c)
  /\ initTimer[c] = "armed"
  /\ initTimer' = [initTimer EXCEPT ![c] = "off"]
  /\ IF TimerRetries(c)
     THEN doRetry(c)
     ELSE UNCHANGED <<retryTriggered, retryPc, retryTarget, retryCalls>>
  /\ UNCHANGED <<whatsappClient, isClientReady, numClients, attempt, phase,
                 qrEncoding, initState, eventReceived, creator, channelVars,
                 authDir, authClears, numManual, handler, lastCall,
                 destroyFailures,
                 jobVars,
                 retryLog>>

\* doRetry's steps after the 2 s wait with initWhatsApp called first
retrySteps_InitFirst(c) ==
  IF MayRetry(c)
  THEN <<"initWhatsApp">>
       \o (IF ClearsAuth(c) THEN <<"rmSync">> ELSE <<>>)
       \o <<"cleanupStaleLockFiles", "retrying">>
  ELSE <<"error">>

\* the statements of doRetry after the 2 s wait, in their order
retrySteps(c) ==
  IF MayRetry(c)
  THEN (IF ClearsAuth(c) THEN <<"rmSync">> ELSE <<>>)
       \o <<"cleanupStaleLockFiles", "retrying", "initWhatsApp">>
  ELSE <<"error">>

\* destroy() of doRetry settles (a throw is swallowed); the 2 s wait starts
RetryDestroySettles(c) ==
  /\ retryPc[c] = "destroy"
  /\ retryPc' = [retryPc EXCEPT ![c] = "wait"]
  /\ retryLog' = [retryLog EXCEPT ![c] = @ \o <<"destroy">>]
  /\ retryTarget' = [retryTarget EXCEPT ![c] = 0]
  /\ \E ok \in Outcomes :
       /\ phase' = destroyed(phase, retryTarget[c], ok)
       /\ destroyFailures' = Failures(ok)
  /\ UNCHANGED <<whatsappClient, isClientReady, numClients, attempt,
                 qrEncoding, initState, initTimer, eventReceived,
                 retryTriggered, creator, channelVars, authDir, authClears,
                 numManual, handler, lastCall,
                 jobVars,
                 retryCalls>>

\* doRetry after the 2 s wait: retry with attempt + 1, or give up
RetryAfterWait(c) ==
  /\ retryPc[c] = "wait"
  /\ retryPc' = [retryPc EXCEPT ![c] = "done"]
  /\ retryLog' = [retryLog EXCEPT ![c] = @ \o <<"wait">> \o retrySteps(c)]
  /\ IF MayRetry(c)
     THEN /\ authClears' = IF ClearsAuth(c) THEN authClears + 1
                                            ELSE authClears
          /\ sendStatus("retrying")
          /\ initWhatsApp(attempt[c] + 1, <<"retry", c>>, phase)
          /\ UNCHANGED fatalMessages
     ELSE /\ sendStatus("error")
          /\ fatalMessages' = fatalMessages + 1
          /\ UNCHANGED <<whatsappClient, numClients, attempt, phase,
                         qrEncoding, initState, initTimer, eventReceived,
                         creator, authDir, authClears>>
  /\ UNCHANGED <<isClientReady, retryTriggered, retryTarget, qrSent,
                 numManual, handler, lastCall, destroyFailures,
                 jobVars,
                 retryCalls>>

\* ---- reconnect-whatsapp / logout-whatsapp ---------------------------------
\* an invocation is active from its call until its last statement ran (for a
\* logout: until the delayed initWhatsApp() ran)
Active(m) == handler[m].kind # "none" /\ handler[m].pc # "done"

RetryInFlight(c) == retryPc[c] \in {"destroy", "wait"}

\* what an invocation starts with: the client it calls into, and which
\* other sequences are in flight at that moment
Invoked(kind, pc) ==
  [kind |-> kind, pc |-> pc, target |-> whatsappClient, result |-> "none",
   overlapped |-> \E m \in HandlerIds : Active(m),
   duringRetry |-> {c \in ClientIds : RetryInFlight(c)}]

\* reconnect-whatsapp up to "await whatsappClient.destroy()"
ReconnectWhatsapp ==
  /\ numManual < MaxManual
  /\ numManual' = numManual + 1
  /\ handler' = [handler EXCEPT
                   ![numManual + 1] = Invoked("reconnect", "destroy")]
  /\ UNCHANGED <<whatsappClient, isClientReady, clientVars, channelVars,
                 authDir, authClears, lastCall, destroyFailures,
                 jobVars>>

\* destroy() settles: the rest of the try block, or the catch block
ReconnectDestroySettles(m) ==
  /\ handler[m].kind = "reconnect"
  /\ handler[m].pc = "destroy"
  /\ \E ok \in Outcomes :
       /\ destroyFailures' = Failures(ok)
       /\ IF ok
          THEN /\ isClientReady' = FALSE
               /\ initWhatsApp(1, <<"reconnect", m>>,
                               destroyed(phase, handler[m].target, TRUE))
               /\ handler' = [handler EXCEPT ![m].pc = "done",
                                             ![m].target = 0,
                                             ![m].result = "success"]
          ELSE /\ handler' = [handler EXCEPT ![m].pc = "done",
                                             ![m].target = 0,
                                             ![m].result = "error"]
               /\ UNCHANGED <<whatsappClient, isClientReady, numClients,
                              attempt, phase, qrEncoding, initState,
                              initTimer, eventReceived, creator, authDir>>
  /\ UNCHANGED <<retryTriggered, retryPc, retryTarget, channelVars,
                 authClears, numManual, lastCall,
                 jobVars,
                 retryCalls,
                 retryLog>>

\* logout-whatsapp up to "await whatsappClient.logout()"
LogoutWhatsapp ==
  /\ numManual < MaxManual
  /\ numManual' = numManual + 1
  /\ handler' = [handler EXCEPT
                   ![numManual + 1] = Invoked("logout", "logout")]
  /\ UNCHANGED <<whatsappClient, isClientReady, clientVars, channelVars,
                 authDir, authClears, lastCall, destroyFailures,
                 jobVars>>

\* logout-whatsapp without "isClientReady = false"
LogoutTail_KeepsFlag(m, phaseNow) ==
  /\ phase' = phaseNow
  /\ UNCHANGED isClientReady
  /\ authDir' = "absent"
  /\ authClears' = authClears + 1
  /\ sendStatus("logged_out")
  /\ handler' = [handler EXCEPT ![m].pc = "delay", ![m].target = 0,
                                ![m].result = "success"]

\* the statements after the try/catch of logout-whatsapp, up to setTimeout
LogoutTail(m, phaseNow) ==
  /\ phase' = phaseNow
  /\ isClientReady' = FALSE
  /\ authDir' = "absent"
  /\ authClears' = authClears + 1
  /\ sendStatus("logged_out")
  /\ handler' = [handler EXCEPT ![m].pc = "delay", ![m].target = 0,
                                ![m].result = "success"]

\* logout() settles: destroy() is called in the try block, or in the catch
LogoutSettles(m) ==
  /\ handler[m].kind = "logout"
  /\ handler[m].pc = "logout"
  /\ \E ok \in BOOLEAN :
       handler' = [handler EXCEPT
                     ![m].pc = IF ok THEN "destroy" ELSE "destroy-in-catch",
                     ![m].target = whatsappClient]
  /\ UNCHANGED <<whatsappClient, isClientReady, clientVars, channelVars,
                 authDir, authClears, numManual, lastCall,
                 destroyFailures,
                 jobVars>>

\* destroy() of the try block settles: on a throw the catch block calls
\* destroy() again
LogoutDestroySettles(m) ==
  /\ handler[m].kind = "logout"
  /\ handler[m].pc = "destroy"
  /\ \E ok \in Outcomes :
       /\ destroyFailures' = Failures(ok)
       /\ IF ok
          THEN LogoutTail(m, destroyed(phase, handler[m].target, TRUE))
          ELSE /\ handler' = [handler EXCEPT ![m].pc = "destroy-in-catch",
                                             ![m].target = whatsappClient]
               /\ UNCHANGED <<phase, isClientReady, authDir, authClears,
                              lastStatus, statusCount>>
  /\ UNCHANGED <<whatsappClient, numClients, attempt, qrEncoding, initState,
                 initTimer, eventReceived, retryTriggered, retryPc,
                 retryTarget, creator, qrSent, fatalMessages, numManual,
                 lastCall,
                 jobVars,
                 retryCalls,
                 retryLog>>

\* destroy() of the catch block settles; its own throw is swallowed
LogoutCatchDestroySettles(m) ==
  /\ handler[m].kind = "logout"
  /\ handler[m].pc = "destroy-in-catch"
  /\ \E ok \in Outcomes :
       /\ LogoutTail(m, destroyed(phase, handler[m].target, ok))
       /\ destroyFailures' = Failures(ok)
  /\ UNCHANGED <<whatsappClient, numClients, attempt, qrEncoding, initState,
                 initTimer, eventReceived, retryTriggered, retryPc,
                 retryTarget, creator, qrSent, fatalMessages, numManual,
                 lastCall,
                 jobVars,
                 retryCalls,
                 retryLog>>

\* the setTimeout(() => initWhatsApp(), 1000) callback of logout-whatsapp
LogoutRestart(m) ==
  /\ handler[m].kind = "logout"
  /\ handler[m].pc = "delay"
  /\ handler' = [handler EXCEPT ![m].pc = "done"]
  /\ initWhatsApp(1, <<"logout", m>>, phase)
  /\ UNCHANGED <<isClientReady, retryTriggered, retryPc, retryTarget,
                 channelVars, authClears, numManual, lastCall,
                 destroyFailures,
                 jobVars,
                 retryCalls,
                 retryLog>>

\* ---- the readiness guard of the chat/message IPC handlers -----------------
\* download-file without its guard
NotReady_Unguarded(op) ==
  IF op = "download-file" THEN FALSE
  ELSE ~isClientReady \/ (op = "get-profile-info" /\ whatsappClient = 0)

\* the first statement of each handler: TRUE when the handler returns
\* { error: "WhatsApp not ready" }
NotReady(op) ==
  CASE op = "get-unread-chats"   -> ~isClientReady
    [] op = "get-all-chats"      -> ~isClientReady
    [] op = "get-chat-files"     -> ~isClientReady
    [] op = "download-file"      -> ~isClientReady
    [] op = "download-all-files" -> ~isClientReady
    [] op = "mark-chat-read"     -> ~isClientReady
    [] op = "get-profile-info"   -> ~isClientReady \/ whatsappClient = 0

\* a guarded handler is invoked: it returns the error at once, or goes on
\* to its first backend call on the client the global handle names
IpcInvoke(op) ==
  /\ lastCall' = IF NotReady(op)
                 THEN [op |-> op, readyAtCall |-> isClientReady,
                       result |-> NotReadyError, backend |-> 0]
                 ELSE [op |-> op, readyAtCall |-> isClientReady,
                       result |-> "started", backend |-> whatsappClient]
  /\ UNCHANGED <<whatsappClient, isClientReady, clientVars, channelVars,
                 authDir, authClears, numManual, handler, destroyFailures,
                 jobVars>>

\* ---- get-chat-files -------------------------------------------------------
\* [...messages].sort((a, b) => a.timestamp - b.timestamp): Array.sort is
\* stable, an element goes behind the elements that do not compare greater
RECURSIVE sortedMsgs(_)
sortedMsgs(ms) ==
  IF ms = <<>> THEN <<>>
  ELSE LET m == Len(ms)
           front == sortedMsgs(SubSeq(ms, 1, m - 1))
           pos == Cardinality({j \in DOMAIN front :
                                 front[j].timestamp <= ms[m].timestamp})
       IN SubSeq(front, 1, pos) \o <<ms[m]>>
            \o SubSeq(front, pos + 1, Len(front))

\* Array.prototype.slice(-k): from max(length - k, 0) for k > 0, and the
\* whole array for k = 0 (-0 is 0)
sliceLast(seq, k) ==
  LET start == IF k > 0 /\ Len(seq) - k > 0 THEN Len(seq) - k ELSE 0
  IN SubSeq(seq, start + 1, Len(seq))

\* the unread set without the "unreadCount > 0" test
unreadMsgIds_NoGuard(ms, unreadCount) ==
  LET unreadSlice == sliceLast(sortedMsgs(ms), unreadCount)
  IN {unreadSlice[j].id : j \in DOMAIN unreadSlice}

\* unreadMsgIds: the ids of the last unreadCount messages by time
unreadMsgIds(ms, unreadCount) ==
  IF unreadCount > 0
  THEN LET unreadSlice == sliceLast(sortedMsgs(ms), unreadCount)
       IN {unreadSlice[j].id : j \in DOMAIN unreadSlice}
  ELSE {}

\* the fileName of a message's entry: msg._data.fileName, or the default
\* built from the type and the timestamp
entryFileName(msg) ==
  IF msg.fileName # NoName THEN msg.fileName ELSE <<"type", msg.timestamp>>

\* the mediaInfo entry of a media message
mediaInfo(msg, unread, files) ==
  LET expectedPath == localPath(msg.id, entryFileName(msg))
  IN [messageId |-> msg.id,
      timestamp |-> msg.timestamp,
      fileName |-> entryFileName(msg),
      isDownloaded |-> expectedPath \in files,
      localPath |-> IF expectedPath \in files THEN expectedPath ELSE NoPath,
      isUnread |-> msg.id \in unread]

\* files.sort with the comparator's operands swapped
RECURSIVE sortFiles_Ascending(_)
sortFiles_Ascending(fs) ==
  IF fs = <<>> THEN <<>>
  ELSE LET m == Len(fs)
           front == sortFiles_Ascending(SubSeq(fs, 1, m - 1))
           pos == Cardinality({j \in DOMAIN front :
                                 front[j].timestamp <= fs[m].timestamp})
       IN SubSeq(front, 1, pos) \o <<fs[m]>>
            \o SubSeq(front, pos + 1, Len(front))

\* files.sort((a, b) => b.timestamp - a.timestamp), stable
RECURSIVE sortFiles(_)
sortFiles(fs) ==
  IF fs = <<>> THEN <<>>
  ELSE LET m == Len(fs)
           front == sortFiles(SubSeq(fs, 1, m - 1))
           pos == Cardinality({j \in DOMAIN front :
                                 front[j].timestamp >= fs[m].timestamp})
       IN SubSeq(front, 1, pos) \o <<fs[m]>>
            \o SubSeq(front, pos + 1, Len(front))

hasMedia(msg) == msg.hasMedia

\* the files of the reply: one entry per media message, newest first
chatFiles(ms, unreadCount, files) ==
  LET media == SelectSeq(ms, hasMedia)
      unread == unreadMsgIds(ms, unreadCount)
  IN sortFiles([j \in DOMAIN media |-> mediaInfo(media[j], unread, files)])

\* a handler is invoked when no other indexer / job handler is in progress
Idle == job.pc = "idle"

\* get-chat-files up to "await whatsappClient.getChatById(chatId)"
GetChatFiles ==
  /\ Idle
  /\ IF NotReady("get-chat-files")
     THEN /\ reply' = [NoReply EXCEPT !.op = "get-chat-files",
                                      !.results = <<NotReadyError>>]
          /\ UNCHANGED job
     ELSE /\ job' = [NoJob EXCEPT !.op = "get-chat-files", !.pc = "fetch",
                                  !.client = whatsappClient]
          /\ UNCHANGED reply
  /\ UNCHANGED <<whatsappClient, isClientReady, clientVars, channelVars,
                 authDir, authClears, numManual, handler, lastCall,
                 destroyFailures, disk, chat, listing, prevListing, dirty,
                 progress,
                 chats,
                 ui,
                 thumb>>

\* get-chat-files leaving a placeholder for every file it lists
ChatFilesSettle_CachesFiles ==
  /\ job.op = "get-chat-files"
  /\ job.pc = "fetch"
  /\ job' = NoJob
  /\ LET files == chatFiles(chat.messages, chat.unreadCount, disk)
     IN /\ listing' = [taken |-> TRUE, files |-> files,
                       unreadMsgIds |-> unreadMsgIds(chat.messages,
                                                     chat.unreadCount),
                       afterChange |-> dirty]
        /\ disk' = disk \cup {localPath(files[j].messageId, files[j].fileName) :
                                j \in DOMAIN files}
  /\ prevListing' = listing
  /\ dirty' = FALSE
  /\ UNCHANGED <<whatsappClient, isClientReady, clientVars, channelVars,
                 authDir, authClears, numManual, handler, lastCall,
                 destroyFailures, chat, reply,
                 progress,
                 chats,
                 ui,
                 thumb>>

\* the chat and its messages arrive and the reply is built, or the backend
\* throws and the reply is { error }
ChatFilesSettle ==
  /\ job.op = "get-chat-files"
  /\ job.pc = "fetch"
  /\ job' = NoJob
  /\ \E ok \in BOOLEAN :
       IF ok
       THEN /\ listing' = [taken |-> TRUE,
                           files |-> chatFiles(chat.messages,
                                               chat.unreadCount, disk),
                           unreadMsgIds |-> unreadMsgIds(chat.messages,
                                                         chat.unreadCount),
                           afterChange |-> dirty]
            /\ prevListing' = listing
            /\ dirty' = FALSE
            /\ UNCHANGED reply
       ELSE /\ reply' = [NoReply EXCEPT !.op = "get-chat-files",
                                        !.results = <<"error">>]
            /\ UNCHANGED <<listing, prevListing, dirty>>
  /\ UNCHANGED <<whatsappClient, isClientReady, clientVars, channelVars,
                 authDir, authClears, numManual, handler, lastCall,
                 destroyFailures, disk, chat,
                 progress,
                 chats,
                 ui,
                 thumb>>

\* ---- get-unread-chats and get-all-chats -----------------------------------
Broadcast == <<"status@broadcast", 0>>

UserId(k) == <<"user@c.us", k>>

\* chat.id.user
Number(k) == <<"user", k>>

SavedName == <<"saved", 1>>

ContactName == <<"contact", 1>>

Pushname == <<"pushname", 1>>

PicUrl == <<"url", 1>>

\* (msgs[0].body || "").substring(0, 50)
PreviewLength == 50

\* the latest message of a chat: none, a media message, or a text of more
\* than PreviewLength characters
LatestMessages ==
  {[some |-> FALSE, hasMedia |-> FALSE, length |-> 0],
   [some |-> TRUE, hasMedia |-> TRUE, length |-> 0],
   [some |-> TRUE, hasMedia |-> FALSE, length |-> PreviewLength + 1]}

\* the k-th chat of the list as the backend gives it
ListedChat(k, id, timestamp, unreadCount, name, pushname, contactName, latest) ==
  [id |-> id, number |-> Number(k), timestamp |-> timestamp,
   unreadCount |-> unreadCount, name |-> name, pushname |-> pushname,
   contactName |-> contactName, latest |-> latest]

\* a chat with a saved name, a pushname and a text as its latest message
PlainChat(k, id, timestamp, unreadCount) ==
  ListedChat(k, id, timestamp, unreadCount, SavedName, Pushname, NoStr,
             [some |-> TRUE, hasMedia |-> FALSE, length |-> PreviewLength + 1])

\* chat lists that differ in what the listing filters and sorts by
OrderLists ==
  UNION {{[k \in 1..n |-> PlainChat(k, IF f[k][1] THEN Broadcast ELSE UserId(k),
                                    f[k][2], f[k][3])] :
            f \in [1..n -> BOOLEAN \X (0..MaxTime) \X (0..1)]} :
           n \in 0..MaxChats}

\* chat lists in which one chat varies in its names and its latest message
ProbeLists ==
  UNION {UNION {{[k \in 1..n |->
                    IF k = p
                    THEN ListedChat(k, UserId(k), 1, 0, name, pushname,
                                    contactName, latest)
                    ELSE PlainChat(k, UserId(k), 1, 0)] :
                   name \in {NoStr, Number(p), SavedName},
                   pushname \in {NoStr, Pushname},
                   contactName \in {NoStr, ContactName},
                   latest \in LatestMessages} :
                  p \in 1..n} :
           n \in 1..MaxChats}

\* chats.filter((c) => c.id._serialized !== "status@broadcast")
notBroadcast(c) == c.id # Broadcast

\* the sort in ascending order of timestamp, for the test of the listing
RECURSIVE sortChats_Ascending(_)
sortChats_Ascending(cs) ==
  IF cs = <<>> THEN <<>>
  ELSE LET rest == sortChats_Ascending(Tail(cs))
           c == Head(cs)
           before == SelectSeq(rest, LAMBDA d : d.timestamp < c.timestamp)
           after == SelectSeq(rest, LAMBDA d : d.timestamp >= c.timestamp)
       IN before \o <<c>> \o after

\* .sort((a, b) => (b.timestamp || 0) - (a.timestamp || 0)): stable, by
\* descending timestamp; a missing timestamp is 0 in the lists above
RECURSIVE sortChats(_)
sortChats(cs) ==
  IF cs = <<>> THEN <<>>
  ELSE LET rest == sortChats(Tail(cs))
           c == Head(cs)
           before == SelectSeq(rest, LAMBDA d : d.timestamp > c.timestamp)
           after == SelectSeq(rest, LAMBDA d : d.timestamp <= c.timestamp)
       IN before \o <<c>> \o after

\* .slice(0, limit)
sliceFirst(seq, limit) == SubSeq(seq, 1, Min(limit, Len(seq)))

\* a || b on strings
Or(a, b) == IF a # NoStr THEN a ELSE b

\* the lookups that may still throw or run into their timeout
SettleOutcomes ==
  IF job.faults < MaxFaults THEN {"ok", "throws"} ELSE {"ok"}

\* get-unread-chats up to "await withTimeout(whatsappClient.getChats(), ...)"
GetUnreadChats ==
  /\ Idle
  /\ IF NotReady("get-unread-chats")
     THEN /\ reply' = [NoReply EXCEPT !.op = "get-unread-chats",
                                      !.error = NotReadyError]
          /\ UNCHANGED job
     ELSE /\ job' = [NoJob EXCEPT !.op = "get-unread-chats", !.pc = "chats",
                                  !.client = whatsappClient, !.timer = TRUE]
          /\ reply' = NoReply
  /\ UNCHANGED <<whatsappClient, isClientReady, clientVars, channelVars,
                 authDir, authClears, numManual, handler, lastCall,
                 destroyFailures, disk, chat, listing, prevListing, dirty,
                 progress, chats,
                 ui,
                 thumb>>

\* get-all-chats up to "await whatsappClient.getChats()"
GetAllChats(limit) ==
  /\ Idle
  /\ IF NotReady("get-all-chats")
     THEN /\ reply' = [NoReply EXCEPT !.op = "get-all-chats",
                                      !.error = NotReadyError]
          /\ UNCHANGED job
     ELSE /\ job' = [NoJob EXCEPT !.op = "get-all-chats", !.pc = "chats",
                                  !.client = whatsappClient, !.limit = limit]
          /\ reply' = NoReply
  /\ UNCHANGED <<whatsappClient, isClientReady, clientVars, channelVars,
                 authDir, authClears, numManual, handler, lastCall,
                 destroyFailures, disk, chat, listing, prevListing, dirty,
                 progress, chats,
                 ui,
                 thumb>>

\* the locals of the callback of chat c before its first lookup
startEntry(c) ==
  [NoEntry EXCEPT !.id = c.id,
                  !.number = c.number,
                  !.name = IF job.op = "get-all-chats"
                           THEN Or(c.name, <<"Unknown", 0>>)
                           ELSE c.name,
                  !.unreadCount = c.unreadCount,
                  !.timestamp = c.timestamp]

\* the result sorted once more, as get-unread-chats does before it returns
RECURSIVE sortResult(_)
sortResult(es) ==
  IF es = <<>> THEN <<>>
  ELSE LET rest == sortResult(Tail(es))
           e == Head(es)
           before == SelectSeq(rest, LAMBDA d : d.timestamp > e.timestamp)
           after == SelectSeq(rest, LAMBDA d : d.timestamp <= e.timestamp)
       IN before \o <<e>> \o after

\* the handler goes on with chat i of list: its contact lookup is started,
\* or every chat has its entry and the listing is returned.  The callbacks
\* get-unread-chats hands to Promise.all share no state: they are taken one
\* after the other, each with the timeouts of its own lookups
listFrom(list, i, result, faults) ==
  IF i > Len(list)
  THEN /\ job' = NoJob
       /\ reply' = [NoReply EXCEPT
                      !.op = job.op,
                      !.limit = job.limit,
                      !.chats = IF job.op = "get-unread-chats"
                                THEN sortResult(result) ELSE result]
  ELSE /\ job' = [job EXCEPT !.pc = "contact", !.i = i, !.list = list,
                             !.args = result, !.cur = startEntry(list[i]),
                             !.faults = faults]
       /\ UNCHANGED reply

\* getChats() settles: the list is filtered and sorted (and cut to limit by
\* get-all-chats) and the first chat is taken up; or the catch block
\* returns the error
ChatsSettle ==
  /\ job.op \in {"get-unread-chats", "get-all-chats"}
  /\ job.pc = "chats"
  /\ \E ok \in BOOLEAN :
       IF ok
       THEN LET sorted == sortChats(SelectSeq(chats, notBroadcast))
            IN IF job.op = "get-all-chats"
               THEN listFrom(sliceFirst(sorted, job.limit), 1, <<>>, 0)
               ELSE listFrom(sorted, 1, <<>>, 0)
       ELSE /\ job' = NoJob
            /\ reply' = [NoReply EXCEPT !.op = job.op, !.error = "error"]
  /\ UNCHANGED <<whatsappClient, isClientReady, clientVars, channelVars,
                 authDir, authClears, numManual, handler, lastCall,
                 destroyFailures, disk, chat, listing, prevListing, dirty,
                 progress, chats,
                 ui,
                 thumb>>

\* the 30 s timeout of getChats() runs out: the fallback [] is the listing
ChatsTimeout ==
  /\ job.pc = "chats"
  /\ job.timer
  /\ job' = NoJob
  /\ reply' = [NoReply EXCEPT !.op = job.op, !.results = <<"timeout">>]
  /\ UNCHANGED <<whatsappClient, isClientReady, clientVars, channelVars,
                 authDir, authClears, numManual, handler, lastCall,
                 destroyFailures, disk, chat, listing, prevListing, dirty,
                 progress, chats,
                 ui,
                 thumb>>

\* an entry is pushed only for a chat none of whose lookups failed
pushEntry_DropsFailed(e, faults) ==
  listFrom(job.list, job.i + 1,
           IF e.failed = {} THEN Append(job.args, e) ELSE job.args, faults)

\* the entry of the chat in work is pushed and the next chat is taken up
pushEntry(e, faults) ==
  listFrom(job.list, job.i + 1, Append(job.args, e), faults)

\* the callback of get-unread-chats goes on to its preview lookup
toPreview(e, faults) ==
  /\ job' = [job EXCEPT !.pc = "preview", !.cur = e, !.faults = faults]
  /\ UNCHANGED reply

\* chat.getContact() settles.  get-unread-chats takes the pushname and, when
\* the chat has no name of its own, the contact's name, and asks for the
\* picture; get-all-chats takes pushname, name or number and pushes the
\* entry.  A throw leaves the locals as they are.
ContactSettles ==
  /\ job.op \in {"get-unread-chats", "get-all-chats"}
  /\ job.pc = "contact"
  /\ \E outcome \in SettleOutcomes :
       LET c == job.list[job.i]
           e == job.cur
       IN IF job.op = "get-all-chats"
          THEN IF outcome = "ok"
               THEN pushEntry([e EXCEPT
                                 !.name = Or(c.pushname,
                                             Or(c.contactName,
                                                Or(c.number, e.name)))],
                              job.faults)
               ELSE pushEntry([e EXCEPT !.failed = @ \cup {"contact"}],
                              job.faults + 1)
          ELSE IF outcome = "ok"
               THEN /\ job' = [job EXCEPT
                                 !.pc = "pic",
                                 !.cur = [e EXCEPT
                                            !.whatsappName = c.pushname,
                                            !.name =
                                              IF e.name = NoStr
                                                 \/ e.name = e.number
                                              THEN c.contactName
                                              ELSE e.name]]
                    /\ UNCHANGED reply
               ELSE toPreview([e EXCEPT !.failed = @ \cup {"contact"}],
                              job.faults + 1)
  /\ UNCHANGED <<whatsappClient, isClientReady, clientVars, channelVars,
                 authDir, authClears, numManual, handler, lastCall,
                 destroyFailures, disk, chat, listing, prevListing, dirty,
                 progress, chats,
                 ui,
                 thumb>>

\* the 5 s timeout of chat.getContact() runs out: contact is null
ContactTimeout ==
  /\ job.pc = "contact"
  /\ job.timer
  /\ job.faults < MaxFaults
  /\ toPreview([job.cur EXCEPT !.timedOut = @ \cup {"contact"}],
               job.faults + 1)
  /\ UNCHANGED <<whatsappClient, isClientReady, clientVars, channelVars,
                 authDir, authClears, numManual, handler, lastCall,
                 destroyFailures, disk, chat, listing, prevListing, dirty,
                 progress, chats,
                 ui,
                 thumb>>

\* contact.getProfilePicUrl() settles: the url is kept, or the catch block
\* is entered
PicSettles ==
  /\ job.pc = "pic"
  /\ \E outcome \in SettleOutcomes :
       IF outcome = "ok"
       THEN toPreview([job.cur EXCEPT !.profilePicUrl = PicUrl], job.faults)
       ELSE toPreview([job.cur EXCEPT !.failed = @ \cup {"pic"}],
                      job.faults + 1)
  /\ UNCHANGED <<whatsappClient, isClientReady, clientVars, channelVars,
                 authDir, authClears, numManual, handler, lastCall,
                 destroyFailures, disk, chat, listing, prevListing, dirty,
                 progress, chats,
                 ui,
                 thumb>>

\* the 3 s timeout of contact.getProfilePicUrl() runs out: the url is null
PicTimeout ==
  /\ job.pc = "pic"
  /\ job.timer
  /\ job.faults < MaxFaults
  /\ toPreview([job.cur EXCEPT !.timedOut = @ \cup {"pic"}], job.faults + 1)
  /\ UNCHANGED <<whatsappClient, isClientReady, clientVars, channelVars,
                 authDir, authClears, numManual, handler, lastCall,
                 destroyFailures, disk, chat, listing, prevListing, dirty,
                 progress, chats,
                 ui,
                 thumb>>

\* msgs[0].hasMedia ? `[${msgs[0].type}]` : (msgs[0].body || "").substring(0, 50)
preview(latest) ==
  IF ~latest.some THEN NoStr
  ELSE IF latest.hasMedia THEN <<"[type]", 0>>
  ELSE IF latest.length = 0 THEN NoStr
  ELSE <<"body", Min(latest.length, PreviewLength)>>

\* const displayName = savedName || whatsappName || contactNumber
displayName(e) == Or(e.name, Or(e.whatsappName, e.number))

\* chat.fetchMessages({ limit: 1 }) settles: the preview is taken, or the
\* catch block is entered; the entry is built and pushed
PreviewSettles ==
  /\ job.pc = "preview"
  /\ \E outcome \in SettleOutcomes :
       LET e == job.cur
       IN IF outcome = "ok"
          THEN pushEntry([e EXCEPT
                            !.lastMessage = preview(job.list[job.i].latest),
                            !.name = displayName(e)],
                         job.faults)
          ELSE pushEntry([e EXCEPT !.failed = @ \cup {"preview"},
                                   !.name = displayName(e)],
                         job.faults + 1)
  /\ UNCHANGED <<whatsappClient, isClientReady, clientVars, channelVars,
                 authDir, authClears, numManual, handler, lastCall,
                 destroyFailures, disk, chat, listing, prevListing, dirty,
                 progress, chats,
                 ui,
                 thumb>>

\* the 3 s timeout of chat.fetchMessages runs out: msgs is []
PreviewTimeout ==
  /\ job.pc = "preview"
  /\ job.timer
  /\ job.faults < MaxFaults
  /\ pushEntry([job.cur EXCEPT !.timedOut = @ \cup {"preview"},
                               !.name = displayName(job.cur)],
               job.faults + 1)
  /\ UNCHANGED <<whatsappClient, isClientReady, clientVars, channelVars,
                 authDir, authClears, numManual, handler, lastCall,
                 destroyFailures, disk, chat, listing, prevListing, dirty,
                 progress, chats,
                 ui,
                 thumb>>

\* ---- download-file --------------------------------------------------------
\* the outcomes of msg.downloadMedia() followed by fs.writeFileSync: a
\* payload that is written, no payload, a throw of the backend, or a payload
\* whose write throws
MediaOutcomes == {"payload", "nothing", "throws", "writeFails"}

\* mainWindow.webContents.send("download:progress", { messageId, status })
sendProgress(messageId, status) ==
  progress' = Append(progress, <<"download:progress", messageId, status, 0, 0>>)

\* download-file up to "await whatsappClient.getChatById(chatId)"; i is the
\* position of the message with the messageId argument
DownloadFile(i, fileName) ==
  /\ Idle
  /\ Cardinality(disk) < MaxDownloads
  /\ progress' = <<>>
  /\ IF NotReady("download-file")
     THEN /\ reply' = [NoReply EXCEPT !.op = "download-file",
                                      !.results = <<NotReadyError>>]
          /\ UNCHANGED job
     ELSE /\ job' = [NoJob EXCEPT !.op = "download-file", !.pc = "fetch",
                                  !.client = whatsappClient,
                                  !.args = <<fileName>>, !.i = i]
          /\ reply' = NoReply
  /\ UNCHANGED <<whatsappClient, isClientReady, clientVars, channelVars,
                 authDir, authClears, numManual, handler, lastCall,
                 destroyFailures, disk, chat, listing, prevListing, dirty,
                 chats,
                 ui,
                 thumb>>

\* the messages arrive: a message without media ends the handler, for a
\* media message "downloading" is sent and msg.downloadMedia() is called; or
\* the backend throws and the catch block sends "error"
DownloadFileFetched ==
  /\ job.op = "download-file"
  /\ job.pc = "fetch"
  /\ \E ok \in BOOLEAN :
       IF ok
       THEN IF chat.messages[job.i].hasMedia
            THEN /\ job' = [job EXCEPT !.pc = "media"]
                 /\ sendProgress(chat.messages[job.i].id, "downloading")
                 /\ UNCHANGED reply
            ELSE /\ job' = NoJob
                 /\ reply' = [NoReply EXCEPT !.op = "download-file",
                                             !.results = <<"error">>]
                 /\ UNCHANGED progress
       ELSE /\ job' = NoJob
            /\ sendProgress(chat.messages[job.i].id, "error")
            /\ reply' = [NoReply EXCEPT !.op = "download-file",
                                        !.results = <<"error">>]
  /\ UNCHANGED <<whatsappClient, isClientReady, clientVars, channelVars,
                 authDir, authClears, numManual, handler, lastCall,
                 destroyFailures, disk, chat, listing, prevListing, dirty,
                 chats,
                 ui,
                 thumb>>

\* let finalFileName = fileName || media.filename, else file_${Date.now()}
finalFileName(fileName, mediaFilename) ==
  IF fileName # NoName THEN fileName
  ELSE IF mediaFilename # NoName THEN mediaFilename
  ELSE <<"now", 0>>

\* msg.downloadMedia() settles: the file is written, "complete" is sent and
\* the path returned; or there is no media and the handler returns its
\* error; or the backend or the write throws and the catch block sends
\* "error"
DownloadMediaSettles ==
  /\ job.op = "download-file"
  /\ job.pc = "media"
  /\ job' = NoJob
  /\ \E outcome \in MediaOutcomes, mediaFilename \in {NoName, <<"data", 1>>} :
       LET id == chat.messages[job.i].id
           path == localPath(id, finalFileName(job.args[1], mediaFilename))
       IN CASE outcome = "payload" ->
                 /\ disk' = disk \cup {path}
                 /\ dirty' = TRUE
                 /\ sendProgress(id, "complete")
                 /\ reply' = [NoReply EXCEPT !.op = "download-file",
                                             !.results = <<"success">>,
                                             !.messageId = id,
                                             !.localPath = path]
            [] outcome = "nothing" ->
                 /\ reply' = [NoReply EXCEPT !.op = "download-file",
                                             !.results = <<"error">>]
                 /\ UNCHANGED <<disk, dirty, progress>>
            [] OTHER ->
                 /\ sendProgress(id, "error")
                 /\ reply' = [NoReply EXCEPT !.op = "download-file",
                                             !.results = <<"error">>]
                 /\ UNCHANGED <<disk, dirty>>
  /\ UNCHANGED <<whatsappClient, isClientReady, clientVars, channelVars,
                 authDir, authClears, numManual, handler, lastCall,
                 destroyFailures, chat, listing, prevListing,
                 chats,
                 ui,
                 thumb>>

\* ---- download-all-files ---------------------------------------------------
\* const mediaMessages = messages.filter((m) => m.hasMedia)
mediaMessages(ms) == SelectSeq(ms, hasMedia)

\* the client c a handler took its chat and messages from is no longer the
\* one in use
Replaced(c) == phase[c] = "destroyed" \/ whatsappClient # c

\* let finalFileName = media.filename, else msg._data.fileName, else
\* `${msg.type}_${msg.timestamp}.${ext}`
bulkFileName(mediaFilename, msg) ==
  IF mediaFilename # NoName THEN mediaFilename ELSE entryFileName(msg)

\* download-all-files up to "await whatsappClient.getChatById(chatId)"
DownloadAllFiles ==
  /\ Idle
  /\ progress' = <<>>
  /\ IF NotReady("download-all-files")
     THEN /\ reply' = [NoReply EXCEPT !.op = "download-all-files",
                                      !.error = NotReadyError]
          /\ UNCHANGED job
     ELSE /\ job' = [NoJob EXCEPT !.op = "download-all-files",
                                  !.pc = "chat",
                                  !.client = whatsappClient,
                                  !.stale = Replaced(whatsappClient)]
          /\ reply' = NoReply
  /\ UNCHANGED <<whatsappClient, isClientReady, clientVars, channelVars,
                 authDir, authClears, numManual, handler, lastCall,
                 destroyFailures, disk, chat, listing, prevListing, dirty,
                 chats,
                 ui,
                 thumb>>

\* getChatById settles: chat.fetchMessages is called on the chat it gave,
\* or the outer catch returns the error
DownloadAllChatSettles ==
  /\ job.op = "download-all-files"
  /\ job.pc = "chat"
  /\ \E ok \in BOOLEAN :
       IF ok
       THEN /\ job' = [job EXCEPT !.pc = "fetch",
                                  !.stale = @ \/ Replaced(job.client)]
            /\ UNCHANGED reply
       ELSE /\ job' = NoJob
            /\ reply' = [NoReply EXCEPT !.op = "download-all-files",
                                        !.error = "error"]
  /\ UNCHANGED <<whatsappClient, isClientReady, clientVars, channelVars,
                 authDir, authClears, numManual, handler, lastCall,
                 destroyFailures, disk, chat, listing, prevListing, dirty,
                 progress,
                 chats,
                 ui,
                 thumb>>

\* mainWindow.webContents.send("download:bulk-progress",
\*                             { current, total, messageId })
sendBulkProgress(current, total, messageId) ==
  progress' = Append(progress,
                     <<"download:bulk-progress", messageId, "", current,
                       total>>)

\* the loop giving up the remaining messages after a failed item
downloadFrom_AbortsOnFailure(i, results) ==
  LET media == mediaMessages(chat.messages)
      failed == results # <<>> /\ results[Len(results)][2] # "success"
  IN IF i > Len(media) \/ failed
     THEN /\ job' = NoJob
          /\ reply' = [NoReply EXCEPT !.op = "download-all-files",
                                      !.results = results]
          /\ UNCHANGED progress
     ELSE /\ job' = [job EXCEPT !.pc = "media", !.i = i, !.args = results,
                                !.stale = @ \/ Replaced(job.client)]
          /\ sendBulkProgress(i, Len(media), media[i].id)
          /\ UNCHANGED reply

\* the loop at position i of mediaMessages: the bulk-progress notification
\* of the message is sent and msg.downloadMedia() is called on it, or the
\* loop is over and the results are returned
downloadFrom(i, results) ==
  LET media == mediaMessages(chat.messages)
  IN IF i > Len(media)
     THEN /\ job' = NoJob
          /\ reply' = [NoReply EXCEPT !.op = "download-all-files",
                                      !.results = results]
          /\ UNCHANGED progress
     ELSE /\ job' = [job EXCEPT !.pc = "media", !.i = i, !.args = results,
                                !.stale = @ \/ Replaced(job.client)]
          /\ sendBulkProgress(i, Len(media), media[i].id)
          /\ UNCHANGED reply

\* fetchMessages settles: the loop starts, or the outer catch returns the
\* error
DownloadAllFetched ==
  /\ job.op = "download-all-files"
  /\ job.pc = "fetch"
  /\ \E ok \in BOOLEAN :
       IF ok
       THEN downloadFrom(1, <<>>)
       ELSE /\ job' = NoJob
            /\ reply' = [NoReply EXCEPT !.op = "download-all-files",
                                        !.error = "error"]
            /\ UNCHANGED progress
  /\ UNCHANGED <<whatsappClient, isClientReady, clientVars, channelVars,
                 authDir, authClears, numManual, handler, lastCall,
                 destroyFailures, disk, chat, listing, prevListing, dirty,
                 chats,
                 ui,
                 thumb>>

\* msg.downloadMedia() settles: the file is written and its entry pushed;
\* or there is no media and "Failed to download" is pushed; or the backend
\* or the write throws and the inner catch pushes the error; the loop goes
\* on with the next message
DownloadAllMediaSettles ==
  /\ job.op = "download-all-files"
  /\ job.pc = "media"
  /\ \E outcome \in MediaOutcomes, mediaFilename \in {NoName, <<"data", 1>>} :
       LET msg == mediaMessages(chat.messages)[job.i]
       IN CASE outcome = "payload" ->
                 /\ disk' = disk \cup
                              {localPath(msg.id,
                                         bulkFileName(mediaFilename, msg))}
                 /\ dirty' = TRUE
                 /\ downloadFrom(job.i + 1,
                                 job.args \o <<<<msg.id, "success">>>>)
            [] outcome = "nothing" ->
                 /\ downloadFrom(job.i + 1,
                                 job.args
                                   \o <<<<msg.id, "Failed to download">>>>)
                 /\ UNCHANGED <<disk, dirty>>
            [] OTHER ->
                 /\ downloadFrom(job.i + 1,
                                 job.args \o <<<<msg.id, "error">>>>)
                 /\ UNCHANGED <<disk, dirty>>
  /\ UNCHANGED <<whatsappClient, isClientReady, clientVars, channelVars,
                 authDir, authClears, numManual, handler, lastCall,
                 destroyFailures, chat, listing, prevListing,
                 chats,
                 ui,
                 thumb>>

\* ---- the "message" listener -------------------------------------------------
\* messageData.fileName: msg._data.fileName, or
\* `${msg.type}_${msg.timestamp}.${ext}` with the extension of
\* msg._data.mimetype
messageFileName(msg) ==
  IF msg.fileName # NoName THEN msg.fileName ELSE <<"type", msg.timestamp>>

\* the listener naming the file after media.filename first
autoFileName_MediaFirst(mediaFilename, msg) ==
  IF mediaFilename # NoName THEN mediaFilename ELSE messageFileName(msg)

\* "let finalFileName = messageData.fileName || media.filename", else
\* `file_${Date.now()}.${ext2}`
autoFileName(mediaFilename, msg) ==
  IF messageFileName(msg) # NoName THEN messageFileName(msg)
  ELSE IF mediaFilename # NoName THEN mediaFilename
  ELSE <<"now", 0>>

\* mainWindow?.webContents.send("whatsapp:new-message", messageData)
sendNewMessage(id, path) ==
  reply' = [NoReply EXCEPT !.op = "whatsapp:new-message",
                           !.messageId = id,
                           !.localPath = path]

\* the current client emits "message" for message i of the chat: the
\* listener up to "await msg.getChat()"
OnMessage(i) ==
  /\ Idle
  /\ phase[whatsappClient] = "ready"
  /\ job' = [NoJob EXCEPT !.op = "message", !.pc = "chat",
                          !.client = whatsappClient, !.i = i]
  /\ reply' = NoReply
  /\ UNCHANGED <<whatsappClient, isClientReady, clientVars, channelVars,
                 authDir, authClears, numManual, handler, lastCall,
                 destroyFailures, chat, listing, prevListing, progress,
                 chats, ui, disk, dirty,
                 thumb>>

\* msg.getChat() and msg.getContact() settle: a message without media is
\* announced, a media message goes on to "await msg.downloadMedia()", and a
\* throw ends the listener in its outer catch
MessageChatSettles ==
  /\ job.op = "message"
  /\ job.pc = "chat"
  /\ \E ok \in BOOLEAN :
       LET msg == chat.messages[job.i]
       IN IF ~ok
          THEN job' = NoJob /\ UNCHANGED reply
          ELSE IF msg.hasMedia
               THEN job' = [job EXCEPT !.pc = "media"] /\ UNCHANGED reply
               ELSE job' = NoJob /\ sendNewMessage(msg.id, NoPath)
  /\ UNCHANGED <<whatsappClient, isClientReady, clientVars, channelVars,
                 authDir, authClears, numManual, handler, lastCall,
                 destroyFailures, chat, listing, prevListing, progress,
                 chats, ui, disk, dirty,
                 thumb>>

\* msg.downloadMedia() settles: the file is written and announced with its
\* path, or nothing was downloaded (no media, a throw of the backend or of
\* the write) and the message is announced without a path
MessageMediaSettles ==
  /\ job.op = "message"
  /\ job.pc = "media"
  /\ job' = NoJob
  /\ \E outcome \in MediaOutcomes, mediaFilename \in {NoName, <<"data", 1>>} :
       LET msg == chat.messages[job.i]
           path == localPath(msg.id, autoFileName(mediaFilename, msg))
       IN IF outcome = "payload"
          THEN /\ disk' = disk \cup {path}
               /\ dirty' = TRUE
               /\ sendNewMessage(msg.id, path)
          ELSE /\ sendNewMessage(msg.id, NoPath)
               /\ UNCHANGED <<disk, dirty>>
  /\ UNCHANGED <<whatsappClient, isClientReady, clientVars, channelVars,
                 authDir, authClears, numManual, handler, lastCall,
                 destroyFailures, chat, listing, prevListing, progress,
                 chats, ui,
                 thumb>>

\* ---- delete-files ---------------------------------------------------------
\* the paths handed to delete-files, named 1, 2, ... in the order in which
\* they first appear in filePaths
DeletePath(p) == localPath(MsgId(p), <<"data", 1>>)

DeletePaths == {DeletePath(p) : p \in 1..MaxTargets}

TargetNames(n) ==
  {f \in [1..n -> 1..MaxTargets] :
     \A i \in 1..n : \A q \in 1..(f[i] - 1) : \E j \in 1..(i - 1) : f[j] = q}

FilePaths ==
  UNION {{[i \in 1..n |-> DeletePath(names[i])] : names \in TargetNames(n)} :
           n \in 0..MaxTargets}

\* the message ids handed to delete-files: none, or up to two of a message
\* of the chat and a message that is not in the chat
MessageIds ==
  LET ids == {MsgId(1), MsgId(MaxMessages + 1)}
  IN {<<>>} \cup {<<a>> : a \in ids} \cup {<<a, b>> : a \in ids, b \in ids}

\* the local pass stopping at the first file that is not removed
RECURSIVE localPass_StopsOnFailure(_, _, _)
localPass_StopsOnFailure(filePaths, files, locked) ==
  IF filePaths = <<>> THEN [results |-> <<>>, files |-> files]
  ELSE LET filePath == Head(filePaths)
       IN IF filePath \in files /\ filePath \notin locked
          THEN LET rest == localPass_StopsOnFailure(Tail(filePaths),
                                                    files \ {filePath},
                                                    locked)
               IN [results |-> <<<<filePath, "success">>>> \o rest.results,
                   files |-> rest.files]
          ELSE [results |-> <<<<filePath, "error">>>>, files |-> files]

\* "1. Delete local files from disk": one result per path; unlinkSync
\* throws on the files of locked
RECURSIVE localPass(_, _, _)
localPass(filePaths, files, locked) ==
  IF filePaths = <<>> THEN [results |-> <<>>, files |-> files]
  ELSE LET filePath == Head(filePaths)
           removed == filePath \in files /\ filePath \notin locked
           rest == localPass(Tail(filePaths),
                             IF removed THEN files \ {filePath} ELSE files,
                             locked)
       IN [results |-> <<<<filePath, IF removed THEN "success"
                                                ELSE "error">>>>
                         \o rest.results,
           files |-> rest.files]

\* the remote pass without the readiness test
remotePass_NoReadyTest(chatId, messageIds) ==
  chatId /\ Len(messageIds) > 0

\* "if (isClientReady && chatId && messageIds && messageIds.length > 0)"
remotePass(chatId, messageIds) ==
  isClientReady /\ chatId /\ Len(messageIds) > 0

\* delete-files up to "await whatsappClient.getChatById(chatId)", or to its
\* end when there is no remote pass
DeleteFiles(filePaths, messageIds, chatId, locked) ==
  /\ Idle
  /\ LET pass == localPass(filePaths, disk, locked)
         answer == [NoReply EXCEPT !.op = "delete-files",
                                   !.results = pass.results,
                                   !.filePaths = filePaths,
                                   !.messageIds = messageIds,
                                   !.chatId = chatId,
                                   !.ready = isClientReady]
     IN /\ disk' = pass.files
        /\ dirty' = TRUE
        /\ IF remotePass(chatId, messageIds)
           THEN /\ job' = [NoJob EXCEPT !.op = "delete-files",
                                        !.pc = "chat",
                                        !.client = whatsappClient,
                                        !.args = messageIds]
                /\ reply' = [answer EXCEPT !.backendCalls = 1]
           ELSE /\ job' = NoJob
                /\ reply' = answer
  /\ UNCHANGED <<whatsappClient, isClientReady, clientVars, channelVars,
                 authDir, authClears, numManual, handler, lastCall,
                 destroyFailures, chat, listing, prevListing,
                 progress,
                 chats,
                 ui,
                 thumb>>

\* getChatById settles: fetchMessages is called, or the outer catch pushes
\* one error and the handler returns
DeleteChatSettles ==
  /\ job.op = "delete-files"
  /\ job.pc = "chat"
  /\ \E ok \in BOOLEAN :
       IF ok
       THEN /\ job' = [job EXCEPT !.pc = "fetch"]
            /\ reply' = [reply EXCEPT !.backendCalls = @ + 1]
       ELSE /\ job' = NoJob
            /\ reply' = [reply EXCEPT !.waResults = <<<<<<>>, "error">>>>]
  /\ UNCHANGED <<whatsappClient, isClientReady, clientVars, channelVars,
                 authDir, authClears, numManual, handler, lastCall,
                 destroyFailures, disk, chat, listing, prevListing, dirty,
                 progress,
                 chats,
                 ui,
                 thumb>>

inChat(msgId) == \E j \in DOMAIN chat.messages : chat.messages[j].id = msgId

\* the loop over messageIds from position i up to the next
\* "await msg.delete(true)": an id without a message gets its error entry
RECURSIVE notFound(_, _)
notFound(messageIds, i) ==
  IF i > Len(messageIds) \/ inChat(messageIds[i]) THEN <<>>
  ELSE <<<<messageIds[i], "not found">>>> \o notFound(messageIds, i + 1)

\* the handler goes on from position i of messageIds with waResults wa
deleteFrom(i, wa) ==
  LET skipped == notFound(job.args, i)
      next == i + Len(skipped)
  IN IF next > Len(job.args)
     THEN /\ job' = NoJob
          /\ reply' = [reply EXCEPT !.waResults = wa \o skipped]
     ELSE /\ job' = [job EXCEPT !.pc = "delete", !.i = next]
          /\ reply' = [reply EXCEPT !.waResults = wa \o skipped,
                                    !.backendCalls = @ + 1]

\* fetchMessages settles: the loop starts, or the outer catch pushes one
\* error and the handler returns
DeleteFetchSettles ==
  /\ job.op = "delete-files"
  /\ job.pc = "fetch"
  /\ \E ok \in BOOLEAN :
       IF ok
       THEN deleteFrom(1, <<>>)
       ELSE /\ job' = NoJob
            /\ reply' = [reply EXCEPT !.waResults = <<<<<<>>, "error">>>>]
  /\ UNCHANGED <<whatsappClient, isClientReady, clientVars, channelVars,
                 authDir, authClears, numManual, handler, lastCall,
                 destroyFailures, disk, chat, listing, prevListing, dirty,
                 progress,
                 chats,
                 ui,
                 thumb>>

\* msg.delete(true) settles: its entry is pushed and the loop goes on
DeleteMessageSettles ==
  /\ job.op = "delete-files"
  /\ job.pc = "delete"
  /\ \E ok \in BOOLEAN :
       deleteFrom(job.i + 1,
                  reply.waResults
                    \o <<<<job.args[job.i],
                           IF ok THEN "success" ELSE "error">>>>)
  /\ UNCHANGED <<whatsappClient, isClientReady, clientVars, channelVars,
                 authDir, authClears, numManual, handler, lastCall,
                 destroyFailures, disk, chat, listing, prevListing, dirty,
                 progress,
                 chats,
                 ui,
                 thumb>>

\* ---- print-with-setup ------------------------------------------------------
\* path.extname(filePath) of the files of the model
Extensions == {"pdf", "PDF", "png", "docx"}

\* the k-th file handed in, with extension ext
PrintPath(k, ext) == localPath(MsgId(k), <<ext, k>>)

\* path.extname(filePath)
extname(filePath) == filePath[2][1]

\* .toLowerCase() on the extensions of the model
toLowerCase(ext) == IF ext = "PDF" THEN "pdf" ELSE ext

imageExts == {"jpg", "jpeg", "png", "bmp", "gif", "tiff", "tif", "webp"}

\* the handler a file that exists goes to
method(filePath) ==
  LET ext == toLowerCase(extname(filePath))
  IN IF ext = "pdf" THEN "pdf-to-printer"
     ELSE IF ext \in imageExts THEN "mspaint-print"
     ELSE "default-app"

PrintTargets ==
  UNION {{[k \in 1..n |-> PrintPath(k, f[k])] : f \in [1..n -> Extensions]} :
           n \in 0..MaxPrints}

\* the downloads directories the files handed in are looked up in
PrintDisks ==
  {{t[k] : k \in E \cap DOMAIN t} :
     t \in PrintTargets, E \in SUBSET (1..MaxPrints)}

\* print-with-setup up to the first await: the detection of the default
\* printer when no printer is named, else the preferences dialog
PrintWithSetup(filePaths, named) ==
  /\ Idle
  /\ job' = [NoJob EXCEPT !.op = "print-with-setup",
                          !.pc = IF named THEN "prefs" ELSE "detect",
                          !.args = filePaths]
  /\ reply' = NoReply
  /\ UNCHANGED <<whatsappClient, isClientReady, clientVars, channelVars,
                 authDir, authClears, numManual, handler, lastCall,
                 destroyFailures, disk, chat, listing, prevListing, dirty,
                 progress, chats,
                 ui,
                 thumb>>

\* the powershell query for the default printer settles: with a name, with
\* an empty output, or with an error
DetectSettles ==
  /\ job.op = "print-with-setup"
  /\ job.pc = "detect"
  /\ \E outcome \in {"name", "empty", "error"} :
       IF outcome = "name"
       THEN /\ job' = [job EXCEPT !.pc = "prefs"]
            /\ UNCHANGED reply
       ELSE /\ job' = NoJob
            /\ reply' = [NoReply EXCEPT
                           !.op = "print-with-setup",
                           !.error = IF outcome = "empty"
                                     THEN "No printer available"
                                     ELSE "No printer selected"]
  /\ UNCHANGED <<whatsappClient, isClientReady, clientVars, channelVars,
                 authDir, authClears, numManual, handler, lastCall,
                 destroyFailures, disk, chat, listing, prevListing, dirty,
                 progress, chats,
                 ui,
                 thumb>>

\* the loop goes on with file i, or is over and the results are returned;
\* dispatched lists the handler invocations so far with their outcomes
printFrom(i, results, dispatched) ==
  IF i > Len(job.args)
  THEN /\ job' = NoJob
       /\ reply' = [NoReply EXCEPT !.op = "print-with-setup",
                                   !.filePaths = job.args,
                                   !.results = results,
                                   !.dispatched = dispatched]
  ELSE /\ job' = [job EXCEPT !.pc = "file", !.i = i, !.list = results]
       /\ reply' = [NoReply EXCEPT !.dispatched = dispatched]

\* printui exits, with an error or without: the loop over the files starts
PrefsSettles ==
  /\ job.op = "print-with-setup"
  /\ job.pc = "prefs"
  /\ printFrom(1, <<>>, <<>>)
  /\ UNCHANGED <<whatsappClient, isClientReady, clientVars, channelVars,
                 authDir, authClears, numManual, handler, lastCall,
                 destroyFailures, disk, chat, listing, prevListing, dirty,
                 progress, chats,
                 ui,
                 thumb>>

\* one pass of the loop body up to its await: a missing file gets "File not
\* found"; a pdf or an image is handed to its handler, which is awaited;
\* any other file is handed to shell.openPath, whose promise is dropped, and
\* gets success whatever openPath resolves with
PrintFile ==
  /\ job.op = "print-with-setup"
  /\ job.pc = "file"
  /\ LET filePath == job.args[job.i]
     IN IF filePath \notin disk
        THEN printFrom(job.i + 1,
                       Append(job.list, <<filePath, "File not found">>),
                       reply.dispatched)
        ELSE IF method(filePath) = "default-app"
        THEN \E outcome \in {"ok", "fails"} :
               printFrom(job.i + 1,
                         Append(job.list, <<filePath, "success">>),
                         Append(reply.dispatched,
                                <<filePath, method(filePath), outcome>>))
        ELSE /\ job' = [job EXCEPT !.pc = "printing"]
             /\ UNCHANGED reply
  /\ UNCHANGED <<whatsappClient, isClientReady, clientVars, channelVars,
                 authDir, authClears, numManual, handler, lastCall,
                 destroyFailures, disk, chat, listing, prevListing, dirty,
                 progress, chats,
                 ui,
                 thumb>>

\* ptp.print or the mspaint command settles: success is pushed, or the
\* catch block pushes the error; the loop goes on
PrintSettles ==
  /\ job.op = "print-with-setup"
  /\ job.pc = "printing"
  /\ \E outcome \in {"ok", "fails"} :
       LET filePath == job.args[job.i]
       IN printFrom(job.i + 1,
                    Append(job.list,
                           <<filePath,
                             IF outcome = "ok" THEN "success" ELSE "error">>),
                    Append(reply.dispatched,
                           <<filePath, method(filePath), outcome>>))
  /\ UNCHANGED <<whatsappClient, isClientReady, clientVars, channelVars,
                 authDir, authClears, numManual, handler, lastCall,
                 destroyFailures, disk, chat, listing, prevListing, dirty,
                 progress, chats,
                 ui,
                 thumb>>

\* the renderer takes the value its invoke resolved with
ReplyTaken ==
  /\ Idle
  /\ reply # NoReply
  /\ reply' = NoReply
  /\ UNCHANGED <<whatsappClient, isClientReady, clientVars, channelVars,
                 authDir, authClears, numManual, handler, lastCall,
                 destroyFailures, disk, chat, job, listing, prevListing,
                 dirty,
                 progress,
                 chats,
                 ui,
                 thumb>>

\* ---- generate-thumbnail / processThumbQueue --------------------------------
\* the files thumbnails are requested for: pdf files of the downloads
\* directory, named 1, 2, ..., and 0 for a path with no pdf file behind it
ThumbFiles == 0..MaxThumbFiles

\* the thumbnail generator changes and the rest stands still
ThumbStep(t) ==
  /\ thumb' = t
  /\ UNCHANGED <<whatsappClient, isClientReady, clientVars, channelVars,
                 authDir, authClears, numManual, handler, lastCall,
                 destroyFailures, disk, chat, job, listing, prevListing,
                 dirty, reply, progress, chats, ui>>

\* processThumbQueue starting a render whether or not one is in progress
processThumbQueue_NoGuard(t) ==
  IF t.queue = <<>> THEN t
  ELSE [t EXCEPT !.busy = TRUE,
                 !.queue = Tail(@),
                 !.rendering = @ \cup {[request |-> Head(t.queue),
                                        pc |-> "load"]}]

\* processThumbQueue up to "await thumbWindow.loadURL(fileUrl)": nothing
\* while busy or with an empty queue, else the first request is taken
processThumbQueue(t) ==
  IF t.busy \/ t.queue = <<>> THEN t
  ELSE [t EXCEPT !.busy = TRUE,
                 !.queue = Tail(@),
                 !.rendering = @ \cup {[request |-> Head(t.queue),
                                        pc |-> "load"]}]

\* generate-thumbnail for the n-th request: answered at once for a missing
\* or non-pdf file and for a thumbnail already on disk, else queued and
\* processThumbQueue() called
GenerateThumbnail(filePath) ==
  /\ thumb.requests < MaxThumbs
  /\ LET n == thumb.requests + 1
         t == [thumb EXCEPT !.requests = n]
     IN IF filePath = 0 \/ filePath \in thumb.thumbnails
        THEN ThumbStep([t EXCEPT !.answered = @ \cup {n}])
        ELSE ThumbStep(processThumbQueue(
                         [t EXCEPT !.queue = Append(@, <<n, filePath>>)]))

\* the end of a render: resolve(...), "thumbBusy = false" and
\* processThumbQueue()
finishRender(r, outcome) ==
  ThumbStep(processThumbQueue(
              [thumb EXCEPT !.rendering = @ \ {r},
                            !.resolved = Append(@, <<r.request[1], outcome>>),
                            !.busy = FALSE,
                            !.thumbnails =
                               IF outcome = "thumbnailPath"
                               THEN @ \cup {r.request[2]} ELSE @]))

\* the render r of request n in progress, if any
renderOf(n) == {r \in thumb.rendering : r.request[1] = n}

\* loadURL settles: the 2.5 s wait starts, or the catch block resolves the
\* request with the error
ThumbLoadSettles(n, ok) ==
  \E r \in renderOf(n) :
    /\ r.pc = "load"
    /\ IF ok
       THEN ThumbStep([thumb EXCEPT !.rendering =
                         (@ \ {r}) \cup {[r EXCEPT !.pc = "wait"]}])
       ELSE finishRender(r, "error")

\* the 2.5 s wait is over: capturePage() is called
ThumbWaitEnds(n) ==
  \E r \in renderOf(n) :
    /\ r.pc = "wait"
    /\ ThumbStep([thumb EXCEPT !.rendering =
                     (@ \ {r}) \cup {[r EXCEPT !.pc = "capture"]}])

\* capturePage() settles: the thumbnail is written and the request resolved
\* with its path, or the capture or the write throws and the request is
\* resolved with the error
ThumbCaptureSettles(n, ok) ==
  \E r \in renderOf(n) :
    /\ r.pc = "capture"
    /\ finishRender(r, IF ok THEN "thumbnailPath" ELSE "error")

\* ---- renderer: user actions -----------------------------------------------
\* showToast(message, type) during the user action in progress
showToast(u, type) == [u EXCEPT !.toasts = @ \cup {type}]

\* a click can start a user action
CanClick == ui.pc # "waiting" /\ Idle

\* openFile(filePath): window.api.openFile is called and its promise
\* dropped; open-file opens the file if it exists and returns "File not
\* found" otherwise
UiOpenFile(filePath) ==
  /\ CanClick
  /\ ui' = [NoUi EXCEPT !.action = "open-file", !.pc = "done",
                        !.result = IF filePath \in disk THEN "success"
                                   ELSE "error"]
  /\ UNCHANGED <<whatsappClient, isClientReady, clientVars, channelVars,
                 authDir, authClears, numManual, handler, lastCall,
                 destroyFailures, disk, chat, job, listing, prevListing,
                 dirty, reply, progress, chats,
                 thumb>>

\* printSelected() with files selected: without a downloaded file among
\* them the warning is shown; else the info toast is shown and
\* window.api.printWithSetup is called, which preload.js does not expose,
\* so that the call throws and the function ends there
UiPrintSelected(downloaded) ==
  /\ CanClick
  /\ ui' = IF downloaded
           THEN [showToast(NoUi, "info") EXCEPT !.action = "print",
                                                !.pc = "done",
                                                !.result = "error"]
           ELSE [showToast(NoUi, "warning") EXCEPT !.action = "print",
                                                   !.pc = "done"]
  /\ UNCHANGED <<whatsappClient, isClientReady, clientVars, channelVars,
                 authDir, authClears, numManual, handler, lastCall,
                 destroyFailures, disk, chat, job, listing, prevListing,
                 dirty, reply, progress, chats,
                 thumb>>

\* a user action shows its info toast and is about to invoke its handler;
\* m is the position its invocation gets among reconnect and logout
UiClick(action) ==
  /\ CanClick
  /\ ui' = [showToast(NoUi, "info") EXCEPT !.action = action,
                                           !.pc = "waiting",
                                           !.m = numManual + 1]
  /\ reply' = NoReply
  /\ UNCHANGED <<whatsappClient, isClientReady, clientVars, channelVars,
                 authDir, authClears, numManual, handler, lastCall,
                 destroyFailures, disk, chat, job, listing, prevListing,
                 dirty, progress, chats,
                 thumb>>

\* the handler of the user action in progress has not been invoked yet
ToInvoke(action) ==
  /\ ui.pc = "waiting"
  /\ ui.action = action
  /\ Idle
  /\ reply = NoReply
  /\ numManual < ui.m

\* reconnect(): "await window.api.reconnectWhatsApp()"
UiReconnect == ToInvoke("reconnect") /\ ReconnectWhatsapp

\* logoutWhatsApp(): "await window.api.logoutWhatsApp()"
UiLogout == ToInvoke("logout") /\ LogoutWhatsapp

\* reconnect-whatsapp or logout-whatsapp has returned: the renderer drops
\* the value and the function ends
UiManualReturns ==
  /\ ui.pc = "waiting"
  /\ ui.action \in {"reconnect", "logout"}
  /\ numManual >= ui.m
  /\ handler[ui.m].pc = "done"
  /\ ui' = [ui EXCEPT !.pc = "done",
                      !.result = IF handler[ui.m].result = "success"
                                 THEN "success" ELSE "error"]
  /\ UNCHANGED <<whatsappClient, isClientReady, clientVars, channelVars,
                 authDir, authClears, numManual, handler, lastCall,
                 destroyFailures, disk, chat, job, listing, prevListing,
                 dirty, reply, progress, chats,
                 thumb>>

\* the toast of a user action that ended in result
withResult(u, result) ==
  [showToast(u, IF result = "success" THEN "success" ELSE "error")
     EXCEPT !.pc = "done", !.result = result]

\* downloadSingleFile(): "await window.api.downloadFile(...)"
UiDownload(i, fileName) == ToInvoke("download") /\ DownloadFile(i, fileName)

\* download-file has returned: "Download failed" when the result has an
\* error, "Downloaded" otherwise
UiDownloadReturns ==
  /\ ui.pc = "waiting"
  /\ ui.action = "download"
  /\ Idle
  /\ reply.op = "download-file"
  /\ ui' = withResult(ui, IF reply.results = <<"success">> THEN "success"
                          ELSE "error")
  /\ UNCHANGED <<whatsappClient, isClientReady, clientVars, channelVars,
                 authDir, authClears, numManual, handler, lastCall,
                 destroyFailures, disk, chat, job, listing, prevListing,
                 dirty, reply, progress, chats,
                 thumb>>

\* deleteSelected() with a downloaded file selected:
\* "await window.api.deleteFiles(...)"
UiDelete(filePaths, messageIds) ==
  ToInvoke("delete") /\ DeleteFiles(filePaths, messageIds, TRUE, {})

\* some entry of rs is not a success
anyFailed(rs) == \E k \in DOMAIN rs : rs[k][2] # "success"

\* delete-files has returned: the counts are shown, as a warning when
\* something failed and as a success otherwise
UiDeleteReturns ==
  /\ ui.pc = "waiting"
  /\ ui.action = "delete"
  /\ Idle
  /\ reply.op = "delete-files"
  /\ LET failed == anyFailed(reply.results) \/ anyFailed(reply.waResults)
     IN ui' = [showToast(ui, IF failed THEN "warning" ELSE "success")
                 EXCEPT !.pc = "done",
                        !.result = IF failed THEN "error" ELSE "success"]
  /\ UNCHANGED <<whatsappClient, isClientReady, clientVars, channelVars,
                 authDir, authClears, numManual, handler, lastCall,
                 destroyFailures, disk, chat, job, listing, prevListing,
                 dirty, reply, progress, chats,
                 thumb>>

\* ---- renderer: the selected chat and the chat list --------------------------
\* the chats of the sidebar
ViewChats == 1..MaxViewChats

\* the files get-chat-files can report for chatId: <<chatId, j>> is the
\* file of the chat's j-th media message, and the first one is unread and
\* downloaded
Files(chatId) == {<<chatId, 1>>, <<chatId, 2>>}

\* "currentFiles.filter((f) => f.isUnread && f.isDownloaded)"
unreadDownloaded(files) == {f \in files : f[2] = 1}

\* the renderer changes and the main process stands still
ViewStep(u) ==
  /\ ui' = u
  /\ UNCHANGED <<whatsappClient, isClientReady, clientVars, channelVars,
                 authDir, authClears, numManual, handler, lastCall,
                 destroyFailures, disk, chat, job, listing, prevListing,
                 dirty, reply, progress, chats,
                 thumb>>

\* selectChat(chatId) up to "await window.api.getChatFiles(chatId)"
SelectChat(chatId) ==
  /\ ui.selects < MaxSelects
  /\ ViewStep([ui EXCEPT !.currentChatId = chatId,
                         !.selectedFiles = {},
                         !.selects = @ + 1,
                         !.pending = @ \cup {<<ui.selects + 1, chatId>>}])

\* the rest of selectChat once getChatFiles has returned: nothing but the
\* error text on an error, else the files replace currentFiles and the
\* unread downloaded ones are added to the selection
ChatFilesReturn(request, ok, files) ==
  /\ request \in ui.pending
  /\ IF ok
     THEN ViewStep([ui EXCEPT !.pending = @ \ {request},
                              !.currentFiles = files,
                              !.selectedFiles =
                                 @ \cup unreadDownloaded(files)])
     ELSE ViewStep([ui EXCEPT !.pending = @ \ {request}])

\* closeChat()
CloseChat ==
  /\ ui.currentChatId # 0
  /\ ViewStep([ui EXCEPT !.currentChatId = 0,
                         !.currentFiles = {},
                         !.selectedFiles = {}])

\* toggleFileSelect(messageId) on a file card of the list
ToggleFileSelect(messageId) ==
  /\ messageId \in ui.currentFiles
  /\ ViewStep([ui EXCEPT !.selectedFiles =
                            IF messageId \in @ THEN @ \ {messageId}
                            ELSE @ \cup {messageId}])

\* refreshChats() called by the timer, the button or a new-message event,
\* up to "await window.api.getUnreadChats()": dropped while isRefreshing
RefreshChats ==
  /\ ui.calls < MaxRefreshes
  /\ IF ui.isRefreshing
     THEN ViewStep([ui EXCEPT !.calls = @ + 1, !.dropped = @ + 1])
     ELSE ViewStep([ui EXCEPT !.calls = @ + 1,
                              !.isRefreshing = TRUE,
                              !.inFlight = @ + 1])

\* the ways the getUnreadChats request settles
RefreshOutcomes == {"chats", "error", "rejects"}

\* refreshChats without the try/catch around the await
releasesGuard_NotOnRejection(outcome) == outcome # "rejects"

\* "try { result = await ... } catch (err) { result = { error } }" and then
\* "isRefreshing = false": the guard is released on every outcome
releasesGuard(outcome) == outcome \in RefreshOutcomes

\* the getUnreadChats request settles and refreshChats goes on
RefreshSettles(outcome) ==
  /\ ui.inFlight > 0
  /\ ViewStep([ui EXCEPT !.inFlight = @ - 1,
                         !.isRefreshing = @ /\ ~releasesGuard(outcome),
                         !.settled = @ \cup {outcome}])

\* ---- specifications -------------------------------------------------------
\* the backend: lifecycle events and the settling of initialize()
Backend ==
  \/ \E c \in ClientIds : OnQr(c)
  \/ \E c \in ClientIds : OnAuthenticated(c)
  \/ \E c \in ClientIds : OnReady(c)
  \/ \E c \in ClientIds : OnDisconnected(c)
  \/ \E c \in ClientIds : OnAuthFailure(c)
  \/ \E c \in ClientIds : InitializeResolves(c)
  \/ \E c \in ClientIds : InitializeRejects(c)

\* the automatic retry path
Retry ==
  \/ \E c \in ClientIds : InitTimerFires(c)
  \/ \E c \in ClientIds : RetryDestroySettles(c)
  \/ \E c \in ClientIds : RetryAfterWait(c)

\* the user's reconnect and logout requests
Manual ==
  \/ ReconnectWhatsapp
  \/ \E m \in HandlerIds : ReconnectDestroySettles(m)
  \/ LogoutWhatsapp
  \/ \E m \in HandlerIds : LogoutSettles(m)
  \/ \E m \in HandlerIds : LogoutDestroySettles(m)
  \/ \E m \in HandlerIds : LogoutCatchDestroySettles(m)
  \/ \E m \in HandlerIds : LogoutRestart(m)

\* the supervisor on its own: the application was started and the user
\* requests neither reconnect nor logout
Next == Backend \/ Retry

Spec == Init /\ [][Next]_vars

\* the user's requests interleaved with the retry path: the session of the
\* application start comes up, every initialize() that settles fails
NextManual ==
  \/ OnAuthenticated(1)
  \/ OnReady(1)
  \/ \E c \in ClientIds : InitializeRejects(c)
  \/ \E c \in ClientIds : RetryDestroySettles(c)
  \/ \E c \in ClientIds : RetryAfterWait(c)
  \/ Manual

ManualSpec == Init /\ [][NextManual]_vars

\* the guarded IPC channels invoked at any moment of a session that comes
\* up, goes down and is retried after a failed initialize()
NextIpc ==
  \/ \E c \in ClientIds : OnQr(c)
  \/ \E c \in ClientIds : QrEncoded(c)
  \/ \E c \in ClientIds : OnAuthenticated(c)
  \/ \E c \in ClientIds : OnReady(c)
  \/ \E c \in ClientIds : OnDisconnected(c)
  \/ \E c \in ClientIds : InitializeRejects(c)
  \/ \E c \in ClientIds : RetryDestroySettles(c)
  \/ \E c \in ClientIds : RetryAfterWait(c)
  \/ \E op \in GuardedOps : IpcInvoke(op)

IpcSpec == Init /\ [][NextIpc]_vars

\* the user's logout requests during a session that comes up and goes down
NextLogout ==
  \/ \E c \in ClientIds : OnAuthenticated(c)
  \/ \E c \in ClientIds : OnReady(c)
  \/ \E c \in ClientIds : OnDisconnected(c)
  \/ LogoutWhatsapp
  \/ \E m \in HandlerIds : LogoutSettles(m)
  \/ \E m \in HandlerIds : LogoutDestroySettles(m)
  \/ \E m \in HandlerIds : LogoutCatchDestroySettles(m)
  \/ \E m \in HandlerIds : LogoutRestart(m)

LogoutSpec == Init /\ [][NextLogout]_vars

\* the paths under which get-chat-files looks for the files of a chat
expectedPaths(c) ==
  {localPath(c.messages[j].id, entryFileName(c.messages[j])) :
     j \in {k \in DOMAIN c.messages : c.messages[k].hasMedia}}

\* the file list of a chat of the backend, requested in a session that comes
\* up; of the chat's files none or all are in the downloads directory
InitList ==
  /\ Boot
  /\ chat \in Chats
  /\ disk \in {{}, expectedPaths(chat)}
  /\ job = NoJob
  /\ listing = NoListing
  /\ prevListing = NoListing
  /\ dirty = FALSE
  /\ reply = NoReply
  /\ thumb = NoThumb
  /\ ui = NoUi
  /\ chats = <<>>
  /\ progress = <<>>

NextList ==
  \/ OnAuthenticated(1)
  \/ OnReady(1)
  \/ GetChatFiles
  \/ ChatFilesSettle

ListSpec == InitList /\ [][NextList]_vars

\* the indexer on a chat of the backend, in a session that comes up: the
\* file list is requested and single files are downloaded
InitIndex ==
  /\ Boot
  /\ disk = {}
  /\ chat \in Chats
  /\ job = NoJob
  /\ listing = NoListing
  /\ prevListing = NoListing
  /\ dirty = FALSE
  /\ reply = NoReply
  /\ thumb = NoThumb
  /\ ui = NoUi
  /\ chats = <<>>
  /\ progress = <<>>

NextIndex ==
  \/ OnAuthenticated(1)
  \/ OnReady(1)
  \/ GetChatFiles
  \/ ChatFilesSettle
  \/ \E i \in DOMAIN chat.messages, fileName \in {NoName} \cup GivenNames :
       DownloadFile(i, fileName)
  \/ DownloadFileFetched
  \/ DownloadMediaSettles

IndexSpec == InitIndex /\ [][NextIndex]_vars

\* delete-files on any downloads directory, for a chat of at most one
\* message, in a session that comes up and goes down
InitDelete ==
  /\ Boot
  /\ disk \in SUBSET DeletePaths
  /\ chat \in {c \in Chats : /\ c.unreadCount = 0
                              /\ Len(c.messages) <= 1
                              /\ \A j \in DOMAIN c.messages :
                                   /\ ~c.messages[j].hasMedia
                                   /\ c.messages[j].timestamp = 1}
  /\ job = NoJob
  /\ listing = NoListing
  /\ prevListing = NoListing
  /\ dirty = FALSE
  /\ reply = NoReply
  /\ thumb = NoThumb
  /\ ui = NoUi
  /\ chats = <<>>
  /\ progress = <<>>

NextDelete ==
  \/ OnAuthenticated(1)
  \/ OnReady(1)
  \/ OnDisconnected(1)
  \/ /\ reply = NoReply
     /\ \E filePaths \in FilePaths, messageIds \in MessageIds,
           chatId \in BOOLEAN, locked \in {{}, {DeletePath(1)}} :
          DeleteFiles(filePaths, messageIds, chatId, locked)
  \/ DeleteChatSettles
  \/ DeleteFetchSettles
  \/ DeleteMessageSettles
  \/ ReplyTaken

DeleteSpec == InitDelete /\ [][NextDelete]_vars

\* download-all-files on a chat of media and other messages, in a session
\* that comes up and is reconnected by hand
InitJob ==
  /\ Boot
  /\ disk = {}
  /\ chat \in {c \in Chats : /\ c.unreadCount = 0
                              /\ \A j \in DOMAIN c.messages :
                                   c.messages[j].timestamp = 1}
  /\ job = NoJob
  /\ listing = NoListing
  /\ prevListing = NoListing
  /\ dirty = FALSE
  /\ reply = NoReply
  /\ thumb = NoThumb
  /\ ui = NoUi
  /\ chats = <<>>
  /\ progress = <<>>

NextJob ==
  \/ \E c \in ClientIds : OnAuthenticated(c) \/ OnReady(c)
  \/ ReconnectWhatsapp
  \/ \E m \in HandlerIds : ReconnectDestroySettles(m)
  \/ DownloadAllFiles
  \/ DownloadAllChatSettles
  \/ DownloadAllFetched
  \/ DownloadAllMediaSettles

JobSpec == InitJob /\ [][NextJob]_vars

\* download-all-files in a session that comes up and stays up
NextBulk ==
  \/ OnAuthenticated(1)
  \/ OnReady(1)
  \/ DownloadAllFiles
  \/ DownloadAllChatSettles
  \/ DownloadAllFetched
  \/ DownloadAllMediaSettles

BulkSpec == InitJob /\ [][NextBulk]_vars

\* download-all-files and get-chat-files on the same chat, one after the
\* other, in a session that comes up and stays up
NextBulkIndex ==
  \/ NextBulk
  \/ GetChatFiles
  \/ ChatFilesSettle

BulkIndexSpec == InitJob /\ [][NextBulkIndex]_vars

\* incoming messages of the chat are downloaded by the listener and the
\* file list is requested, in a session that comes up and stays up
NextListener ==
  \/ OnAuthenticated(1)
  \/ OnReady(1)
  \/ \E i \in DOMAIN chat.messages : OnMessage(i)
  \/ MessageChatSettles
  \/ MessageMediaSettles
  \/ GetChatFiles
  \/ ChatFilesSettle

ListenerSpec == InitJob /\ [][NextListener]_vars

\* the two listings of chats on the chat lists above, in a session that
\* comes up and stays up
InitChats ==
  /\ Boot
  /\ disk = {}
  /\ chat = NoChat
  /\ job = NoJob
  /\ listing = NoListing
  /\ prevListing = NoListing
  /\ dirty = FALSE
  /\ reply = NoReply
  /\ thumb = NoThumb
  /\ ui = NoUi
  /\ progress = <<>>
  /\ chats \in OrderLists \cup ProbeLists

NextChats ==
  \/ OnAuthenticated(1)
  \/ OnReady(1)
  \/ /\ reply = NoReply
     /\ \/ GetUnreadChats
        \/ \E limit \in 1..MaxChats : GetAllChats(limit)
  \/ ChatsSettle
  \/ ChatsTimeout
  \/ ContactSettles
  \/ ContactTimeout
  \/ PicSettles
  \/ PicTimeout
  \/ PreviewSettles
  \/ PreviewTimeout

ChatsSpec == InitChats /\ [][NextChats]_vars

\* print-with-setup on files of which any may be missing; the handler does
\* not look at the session
InitPrint ==
  /\ Boot
  /\ disk \in PrintDisks
  /\ chat = NoChat
  /\ job = NoJob
  /\ listing = NoListing
  /\ prevListing = NoListing
  /\ dirty = FALSE
  /\ reply = NoReply
  /\ thumb = NoThumb
  /\ ui = NoUi
  /\ progress = <<>>
  /\ chats = <<>>

NextPrint ==
  \/ /\ reply = NoReply
     /\ \E filePaths \in PrintTargets, named \in BOOLEAN :
          PrintWithSetup(filePaths, named)
  \/ DetectSettles
  \/ PrefsSettles
  \/ PrintFile
  \/ PrintSettles

PrintSpec == InitPrint /\ [][NextPrint]_vars

\* the user actions of the renderer on a chat of one media message, with
\* its file downloaded or not, in a session that comes up
InitUi ==
  /\ Boot
  /\ disk \in {{}, {DeletePath(1)}}
  /\ chat \in {c \in Chats : /\ c.unreadCount = 0
                              /\ Len(c.messages) = 1
                              /\ c.messages[1].timestamp = 1
                              /\ c.messages[1].fileName = <<"data", 1>>}
  /\ job = NoJob
  /\ listing = NoListing
  /\ prevListing = NoListing
  /\ dirty = FALSE
  /\ reply = NoReply
  /\ thumb = NoThumb
  /\ ui = NoUi
  /\ progress = <<>>
  /\ chats = <<>>

NextUi ==
  \/ \E c \in ClientIds : OnAuthenticated(c) \/ OnReady(c)
  \/ UiOpenFile(DeletePath(1))
  \/ \E downloaded \in BOOLEAN : UiPrintSelected(downloaded)
  \/ \E action \in {"reconnect", "logout", "download", "delete"} :
       UiClick(action)
  \/ UiReconnect
  \/ \E m \in HandlerIds : ReconnectDestroySettles(m)
  \/ UiLogout
  \/ \E m \in HandlerIds :
       \/ LogoutSettles(m)
       \/ LogoutDestroySettles(m)
       \/ LogoutCatchDestroySettles(m)
       \/ LogoutRestart(m)
  \/ UiManualReturns
  \/ UiDownload(1, <<"data", 1>>)
  \/ DownloadFileFetched
  \/ DownloadMediaSettles
  \/ UiDownloadReturns
  \/ UiDelete(<<DeletePath(1)>>, <<MsgId(1)>>)
  \/ DeleteChatSettles
  \/ DeleteFetchSettles
  \/ DeleteMessageSettles
  \/ UiDeleteReturns

UiSpec == InitUi /\ [][NextUi]_vars

\* the renderer's chat selection and chat-list refresh, with the replies
\* of the main process arriving in any order
InitView == Init

NextView ==
  \/ \E chatId \in ViewChats : SelectChat(chatId)
  \/ \E n \in 1..MaxSelects, chatId \in ViewChats, ok \in BOOLEAN :
       \E files \in SUBSET Files(chatId) :
         ChatFilesReturn(<<n, chatId>>, ok, files)
  \/ CloseChat
  \/ \E chatId \in ViewChats : \E messageId \in Files(chatId) :
       ToggleFileSelect(messageId)
  \/ RefreshChats
  \/ \E outcome \in RefreshOutcomes : RefreshSettles(outcome)

ViewSpec == InitView /\ [][NextView]_vars

\* thumbnails requested at any moment for pdf files of the downloads
\* directory, each render step ending one way or the other
NextThumb ==
  \/ \E filePath \in ThumbFiles : GenerateThumbnail(filePath)
  \/ \E n \in 1..MaxThumbs, ok \in BOOLEAN : ThumbLoadSettles(n, ok)
  \/ \E n \in 1..MaxThumbs : ThumbWaitEnds(n)
  \/ \E n \in 1..MaxThumbs, ok \in BOOLEAN : ThumbCaptureSettles(n, ok)

ThumbSpec == Init /\ [][NextThumb]_vars

\* the supervisor under the scheduling the event loop guarantees: an armed
\* timer runs, and a destroy() call settles
LiveSpec ==
  /\ Spec
  /\ \A c \in ClientIds : WF_vars(InitTimerFires(c))
  /\ \A c \in ClientIds : WF_vars(RetryDestroySettles(c))
  /\ \A c \in ClientIds : WF_vars(RetryAfterWait(c))

\* ---- properties -----------------------------------------------------------
\* the statuses "disconnected" and "auth_failure" name the phase they report
DownPhases == {"disconnected", "auth_failure"}

CreatedBy(who) == \E k \in ClientIds : creator[k] = who

\* C1: without reconnect or logout the supervisor constructs at most three
\* clients, with attempts 1, 2, 3 and one "retrying" before each but the
\* first; "error" and the fatal message are sent together, once, exactly
\* when the retry sequence of the third attempt has run, and no fourth
\* client follows.
C1_RetryBound ==
  numManual = 0 =>
    /\ numClients <= MaxAttempts
    /\ \A c \in ClientIds : Constructed(c) => attempt[c] = c
    /\ statusCount["retrying"] = numClients - 1
    /\ statusCount["error"] <= 1
    /\ fatalMessages = statusCount["error"]
    /\ statusCount["error"] = 1 <=>
         (numClients = MaxAttempts /\ retryPc[MaxAttempts] = "done")

C1_Witness ==
  /\ numManual = 0
  /\ numClients = 3
  /\ statusCount["retrying"] = 2
  /\ statusCount["error"] = 1
  /\ fatalMessages = 1
  /\ \A c \in 1..3 : initState[c] = "failed" \/ ~eventReceived[c]

\* C2: in a retry sequence without reconnect or logout in which no attempt
\* observed qr / authenticated / ready / auth_failure, the auth-storage
\* directory is removed at most once.
C2_AuthClearedOnce ==
  (numManual = 0 /\ \A c \in ClientIds : ~eventReceived[c]) => authClears <= 1

\* C3: a reconnect invoked while the retry of attempt c is in flight and that
\* retry do not both construct a client.
C3_NoDuplicateClient ==
  \A m \in HandlerIds : \A c \in ClientIds :
    (handler[m].kind = "reconnect" /\ c \in handler[m].duringRetry) =>
      ~(CreatedBy(<<"reconnect", m>>) /\ CreatedBy(<<"retry", c>>))

\* C4: a reconnect or logout invoked while another reconnect or logout is
\* active calls neither logout() nor destroy() and constructs no client.
C4_SecondTriggerNoOp ==
  \A m \in HandlerIds :
    handler[m].overlapped =>
      /\ handler[m].pc \notin {"logout", "destroy", "destroy-in-catch"}
      /\ ~CreatedBy(<<handler[m].kind, m>>)

\* C5: a guarded IPC channel invoked while isClientReady is false returns
\* the not-ready error and makes no backend call.
C5_NotReadyFailsFast ==
  (lastCall.op # "none" /\ ~lastCall.readyAtCall) =>
    (lastCall.result = NotReadyError /\ lastCall.backend = 0)

C5_Witness ==
  /\ lastCall.op = "download-file"
  /\ ~lastCall.readyAtCall
  /\ lastCall.result = NotReadyError
  /\ lastCall.backend = 0
  /\ lastStatus = "disconnected"

\* C6: every attempt eventually observes one of qr / authenticated / ready /
\* auth_failure, or its retry sequence runs to its "retrying" or "error".
C6_NoSilentHang ==
  \A c \in ClientIds :
    Constructed(c) ~> (eventReceived[c] \/ retryPc[c] = "done")

\* C7: the step of doRetry that follows the 2 s wait removes the
\* auth-storage directory only if the attempt observed no qr /
\* authenticated / ready / auth_failure; below the bound it constructs the
\* next client with attempt + 1, without a removal when such an event was
\* observed.
C7_AuthPreserved ==
  [][\A c \in ClientIds :
       (retryPc[c] = "wait" /\ retryPc'[c] = "done") =>
         /\ authClears' # authClears => ~eventReceived[c]
         /\ attempt[c] < MaxAttempts =>
              /\ numClients' = numClients + 1
              /\ attempt'[numClients'] = attempt[c] + 1
              /\ eventReceived[c] => authClears' = authClears]_vars

C7_Witness ==
  \E c \in ClientIds :
    /\ retryPc[c] = "done"
    /\ eventReceived[c]
    /\ initState[c] = "failed"
    /\ Constructed(c + 1)
    /\ attempt[c + 1] = attempt[c] + 1
    /\ authClears = 0
    /\ authDir = "present"

\* C8: the step that handles a "disconnected" or an "auth_failure" event
\* leaves isClientReady false and the matching status as the latest one sent.
C8_FlagCleared ==
  [][\A c \in ClientIds :
       (phase'[c] \in DownPhases /\ phase'[c] # phase[c]) =>
         (~isClientReady' /\ lastStatus' = phase'[c])]_vars

\* C9 as stated: while "disconnected" or "auth_failure" is the latest status
\* and the user has requested neither reconnect nor logout, no client is
\* constructed and no "retrying" is sent.
C9_NoAutoRetry ==
  [][(numManual = 0 /\ lastStatus \in DownPhases) =>
       /\ numClients' = numClients
       /\ statusCount'["retrying"] = statusCount["retrying"]]_vars

\* C9 amended: the "disconnected" and "auth_failure" listeners construct no
\* client, start no retry and send no "retrying"; after such an event the
\* retry sequence of that client starts only when its pending initialize()
\* call fails, or when its 45 s timer runs and none of qr / authenticated /
\* ready / auth_failure was observed.
C9_RetryOnlyOnFailure ==
  [][\A c \in ClientIds :
       /\ (phase'[c] \in DownPhases /\ phase'[c] # phase[c]) =>
            /\ numClients' = numClients
            /\ retryPc' = retryPc
            /\ statusCount' = statusCount
       /\ (phase[c] \in DownPhases /\ retryPc[c] = "idle"
             /\ retryPc'[c] # "idle") =>
            \/ initState[c] = "pending" /\ initState'[c] = "failed"
            \/ initTimer[c] = "armed" /\ ~eventReceived[c]]_vars

C9_Witness ==
  \E c \in ClientIds :
    /\ phase[c] = "auth_failure"
    /\ lastStatus = "auth_failure"
    /\ initState[c] = "pending"
    /\ initTimer[c] = "off"
    /\ retryPc[c] = "idle"

\* C10: the step in which a reconnect finishes leaves isClientReady false
\* and the global handle on a client constructed in that step with attempt 1.
C10_ReconnectRestarts ==
  [][\A m \in HandlerIds :
       (handler[m].kind = "reconnect" /\ handler[m].pc = "destroy"
          /\ handler'[m].pc = "done") =>
         /\ ~isClientReady'
         /\ numClients' = numClients + 1
         /\ whatsappClient' = numClients'
         /\ attempt'[whatsappClient'] = 1]_vars
GaveUpAfterManual(e) ==
  /\ attempt[e] = MaxAttempts
  /\ retryPc[e] = "done"
  /\ statusCount["error"] >= 1
  /\ \A m \in 1..numManual :
       /\ handler[m].pc = "done"
       /\ \E k \in 1..(e - 1) : creator[k] = <<handler[m].kind, m>>

\* C12: once "error" was sent, and as long as no reconnect or logout is
\* invoked, no step starts or advances a retry sequence, constructs a
\* client, removes the auth-storage directory, or sends "retrying" or
\* another "error".
C12_ErrorIsTerminal ==
  [][((\E e \in ClientIds : GaveUpAfterManual(e))
        /\ numManual' = numManual) =>
       /\ retryPc' = retryPc
       /\ numClients' = numClients
       /\ authClears' = authClears
       /\ statusCount'["retrying"] = statusCount["retrying"]
       /\ statusCount'["error"] = statusCount["error"]]_vars
\* C14: the step that sends the data URL of a "qr" event of client c on
\* whatsapp:qr runs before any status of an event that c emitted after that
\* "qr" event has been sent.
C14_QrBeforeLaterStatus ==
  [][\A c \in ClientIds :
       (qrEncoding[c] /\ ~qrEncoding'[c] /\ ~qrSent /\ qrSent') =>
         phase[c] \notin {"authenticated", "ready", "disconnected",
                          "auth_failure"}]_vars

\* the messages that follow message i when the retrieved list is sorted
\* ascending by timestamp with equal timestamps kept in retrieval order
laterThan(ms, i) ==
  {j \in DOMAIN ms :
     \/ ms[j].timestamp > ms[i].timestamp
     \/ ms[j].timestamp = ms[i].timestamp /\ j > i}

\* C15: with unreadCount = k and m retrieved messages, get-chat-files takes
\* as unread exactly the messages followed by fewer than k others in the
\* stable ascending order: the last min(k, m) of them, none for k = 0 and
\* all for k >= m.
C15_UnreadIsLastK ==
  listing.taken =>
    LET ms == chat.messages
        k == chat.unreadCount
    IN /\ \A i \in DOMAIN ms :
            ms[i].id \in listing.unreadMsgIds
              <=> Cardinality(laterThan(ms, i)) < k
       /\ listing.unreadMsgIds \subseteq {ms[i].id : i \in DOMAIN ms}
       /\ Cardinality(listing.unreadMsgIds) = Min(k, Len(ms))
       /\ k = 0 => listing.unreadMsgIds = {}
       /\ k >= Len(ms) =>
            listing.unreadMsgIds = {ms[i].id : i \in DOMAIN ms}

C15_Witness ==
  /\ listing.taken
  /\ chat.unreadCount = 2
  /\ Len(chat.messages) = 3
  /\ chat.messages[1].timestamp = 2
  /\ chat.messages[2].timestamp = 1
  /\ chat.messages[3].timestamp = 1
  /\ listing.unreadMsgIds = {MsgId(3), MsgId(1)}

\* C16: the reply of get-chat-files holds one entry for each retrieved
\* message with media and none for the others, in descending order of
\* timestamp, and an entry is tagged unread exactly when its message is
\* among the last unreadCount messages by time.
C16_FilesOfMediaMessages ==
  listing.taken =>
    LET ms == chat.messages
        files == listing.files
    IN /\ \A i \in DOMAIN ms :
            Cardinality({j \in DOMAIN files :
                           files[j].messageId = ms[i].id})
              = IF ms[i].hasMedia THEN 1 ELSE 0
       /\ \A j \in DOMAIN files : \E i \in DOMAIN ms :
            /\ files[j].messageId = ms[i].id
            /\ files[j].timestamp = ms[i].timestamp
            /\ files[j].isUnread
                 <=> Cardinality(laterThan(ms, i)) < chat.unreadCount
       /\ \A a, b \in DOMAIN files :
            a < b => files[a].timestamp >= files[b].timestamp

C16_Witness ==
  /\ listing.taken
  /\ Len(chat.messages) = 3
  /\ Len(listing.files) = 2
  /\ listing.files[1].timestamp > listing.files[2].timestamp
  /\ listing.files[1].messageId = MsgId(3)
  /\ listing.files[1].isUnread
  /\ ~listing.files[2].isUnread

\* C17: when download-file has succeeded and get-chat-files is answered
\* next, the path of the download reply is the sanitized message id with
\* the file name, and the file list holds the message of the download as
\* downloaded under that path.
C17_DownloadRoundTrip ==
  (reply.op = "download-file" /\ reply.results = <<"success">>
     /\ listing.taken /\ ~dirty) =>
    /\ reply.localPath[1] = safeMsgId(reply.messageId)
    /\ \E j \in DOMAIN listing.files :
         /\ listing.files[j].messageId = reply.messageId
         /\ listing.files[j].isDownloaded
         /\ listing.files[j].localPath = reply.localPath

\* isDownloaded and localPath of every message of a reply
downloadedMap(l) ==
  {<<l.files[j].messageId, l.files[j].isDownloaded, l.files[j].localPath>> :
     j \in DOMAIN l.files}

\* C18: two get-chat-files replies in a row, with no download or delete
\* between them, give the same isDownloaded and localPath for every message.
C18_ListFilesIdempotent ==
  (listing.taken /\ prevListing.taken /\ ~listing.afterChange) =>
    /\ Len(listing.files) = Len(prevListing.files)
    /\ downloadedMap(listing) = downloadedMap(prevListing)

C18_Witness ==
  /\ listing.taken
  /\ prevListing.taken
  /\ ~listing.afterChange
  /\ Len(listing.files) = 2
  /\ listing.files[1].isDownloaded
  /\ listing.files[1].localPath \in disk
  /\ prevListing.files[2].isDownloaded

\* C13: no operation of the indexer or of a job calls into a client, or into
\* a chat or message taken from a client, that has been destroyed or
\* replaced since; here for the calls of download-all-files, those of its
\* loop included.
C13_NoCallOnReplacedClient == ~job.stale

\* a step in which delete-files is invoked and runs its local pass
DeleteInvoked ==
  /\ job.pc = "idle"
  /\ reply.op = "none"
  /\ reply'.op = "delete-files"

\* the single entry the outer catch of the remote pass pushes
ChatError == <<<<<<>>, "error">>>>

\* C19: the local pass of delete-files gives exactly one result per input
\* path, in input order; a result is a success exactly when the file was on
\* disk at its turn and is gone afterwards; an item that fails does not stop
\* the items after it; and the remote pass is started with the message ids
\* it was given whatever the local results were, and once the chat and its
\* messages were obtained it gives one entry per message id, in order.
C19_LocalPass ==
  [][/\ DeleteInvoked =>
         LET fp == reply'.filePaths
             rs == reply'.results
             ok(i) == rs[i][2] = "success"
         IN /\ Len(rs) = Len(fp)
            /\ \A i \in DOMAIN fp : rs[i][1] = fp[i]
            /\ \A i \in DOMAIN fp :
                 ok(i) <=> (/\ fp[i] \in disk
                            /\ fp[i] \notin disk'
                            /\ \A j \in 1..(i - 1) : fp[j] = fp[i] => ~ok(j))
            /\ disk' = disk \ {fp[i] : i \in {j \in DOMAIN fp : ok(j)}}
            /\ (reply'.ready /\ reply'.chatId /\ reply'.messageIds # <<>>)
                 => (/\ job'.op = "delete-files"
                     /\ job'.pc = "chat"
                     /\ job'.args = reply'.messageIds)
     /\ (/\ job'.pc = "idle"
         /\ reply'.op = "delete-files"
         /\ reply'.backendCalls > 0
         /\ reply'.waResults # ChatError)
        => (/\ Len(reply'.waResults) = Len(reply'.messageIds)
            /\ \A i \in DOMAIN reply'.messageIds :
                 reply'.waResults[i][1] = reply'.messageIds[i])]_vars

\* four targets of which the third is missing: one failure, three
\* successes, and the remote pass under way with the message ids given
C19_Witness ==
  /\ reply.op = "delete-files"
  /\ Len(reply.filePaths) = 4
  /\ Len(reply.results) = 4
  /\ reply.results[3][2] = "error"
  /\ \A i \in {1, 2, 4} : reply.results[i][2] = "success"
  /\ job.op = "delete-files"
  /\ job.pc = "delete"
  /\ job.args = reply.messageIds

\* C20: delete-files calls the backend only when the readiness flag was true
\* and a chat id and a non-empty list of message ids were supplied;
\* otherwise it returns with empty waResults, no backend call made, and a
\* local result for every file path; and no step of the remote pass,
\* failing or not, changes the local results or the downloads directory.
C20_RemotePassGuarded ==
  [][/\ (DeleteInvoked
          /\ ~(reply'.ready /\ reply'.chatId /\ reply'.messageIds # <<>>))
        => (/\ reply'.waResults = <<>>
            /\ reply'.backendCalls = 0
            /\ job' = NoJob
            /\ Len(reply'.results) = Len(reply'.filePaths))
     /\ (reply'.op = "delete-files" /\ reply'.backendCalls > 0)
        => (reply'.ready /\ reply'.chatId /\ reply'.messageIds # <<>>)
     /\ job.op = "delete-files"
        => (/\ reply'.results = reply.results
            /\ reply'.filePaths = reply.filePaths
            /\ disk' = disk)]_vars

\* a call with a chat id and message ids while the flag is false: files
\* removed locally, nothing attempted remotely
C20_Witness ==
  /\ Idle
  /\ reply.op = "delete-files"
  /\ ~reply.ready
  /\ reply.chatId
  /\ reply.messageIds # <<>>
  /\ reply.waResults = <<>>
  /\ reply.backendCalls = 0
  /\ \E i \in DOMAIN reply.results : reply.results[i][2] = "success"

\* the positions after i of the terminal download:progress notifications
\* for the message of notification i
terminalAfter(i) ==
  {j \in DOMAIN progress :
     /\ j > i
     /\ progress[j][1] = "download:progress"
     /\ progress[j][2] = progress[i][2]
     /\ progress[j][3] \in {"complete", "error"}}

\* C22: when download-file has returned, each "downloading" notification is
\* followed by exactly one terminal notification for the same message:
\* "complete" if and only if the call returned success, "error" otherwise.
C22_ProgressTerminated ==
  (Idle /\ reply.op = "download-file") =>
    \A i \in DOMAIN progress :
      progress[i][3] = "downloading" =>
        /\ Cardinality(terminalAfter(i)) = 1
        /\ \A j \in terminalAfter(i) :
             progress[j][3] = "complete" <=> reply.results = <<"success">>

\* the media-bearing messages of the retrieved window, in window order
windowMedia == SelectSeq(chat.messages, LAMBDA m : m.hasMedia)

\* the entries rs are those of the first Len(rs) media messages, in order,
\* and each success has its file in the downloads directory
entriesInOrder(rs) ==
  /\ Len(rs) <= Len(windowMedia)
  /\ \A k \in DOMAIN rs :
       /\ rs[k][1] = windowMedia[k].id
       /\ rs[k][2] \in {"success", "Failed to download", "error"}
       /\ rs[k][2] = "success" =>
            \E f \in {NoName, <<"data", 1>>} :
              localPath(rs[k][1], bulkFileName(f, windowMedia[k])) \in disk

\* C21: download-all-files returns exactly one result per media message of
\* the window, in window order; while the media fetch of item i is in
\* flight every earlier item has its result, failure or not, and no other
\* fetch is in flight; a failure of an item is recorded for that item and
\* the later items are still attempted.
C21_OneResultPerMedia ==
  /\ (job.op = "download-all-files" /\ job.pc = "media") =>
       /\ Len(job.args) = job.i - 1
       /\ entriesInOrder(job.args)
  /\ (Idle /\ reply.op = "download-all-files" /\ reply.error = "") =>
       /\ Len(reply.results) = Len(windowMedia)
       /\ entriesInOrder(reply.results)

\* three media messages: the first gives no payload, the second throws, the
\* third is downloaded
C21_Witness ==
  /\ Idle
  /\ reply.op = "download-all-files"
  /\ Len(reply.results) = 3
  /\ Len(chat.messages) = 3
  /\ reply.results[1][2] = "Failed to download"
  /\ reply.results[2][2] = "error"
  /\ reply.results[3][2] = "success"
  /\ Cardinality(disk) = 1

\* the download:bulk-progress notifications sent so far
bulkProgress == SelectSeq(progress, LAMBDA n : n[1] = "download:bulk-progress")

\* C23: during download-all-files over n media messages the bulk-progress
\* notifications have current = 1, 2, ... in this order, total = n and the
\* message id of their item; notification i is sent when the download
\* attempt of item i has completed; and n of them were sent when the
\* handler returns its results.
C23_BulkProgressAfterAttempt ==
  /\ job.op = "download-all-files" =>
       /\ \A k \in DOMAIN bulkProgress :
            /\ bulkProgress[k][4] = k
            /\ bulkProgress[k][5] = Len(windowMedia)
            /\ bulkProgress[k][2] = windowMedia[k].id
       /\ job.pc = "media" => Len(bulkProgress) <= Len(job.args)
  /\ (Idle /\ reply.op = "download-all-files" /\ reply.error = "") =>
       Len(bulkProgress) = Len(windowMedia)

\* a listing of chats was returned: not an error, and not the empty
\* fallback of a getChats() that ran into its timeout
Listed(op) ==
  /\ Idle
  /\ reply.op = op
  /\ reply.error = ""
  /\ reply.results = <<>>

ListOps == {"get-unread-chats", "get-all-chats"}

\* C24: while a listing of chats waits for a contact lookup, an avatar fetch
\* or a preview fetch, the timeout of that call is armed, so that a call
\* that never returns is cut off and the listing goes on.
C24_EveryLookupTimed ==
  (job.op \in ListOps /\ job.pc \in {"contact", "pic", "preview"}) =>
    job.timer

\* the chats a listing has entries for: the non-broadcast chats by
\* descending timestamp, the first limit of them for get-all-chats
listedChats(op) ==
  LET cs == sortChats(SelectSeq(chats, LAMBDA c : c.id # Broadcast))
  IN IF op = "get-all-chats" THEN SubSeq(cs, 1, Min(reply.limit, Len(cs)))
     ELSE cs

\* the chat of the list with id
chatOf(id) == CHOOSE c \in {chats[k] : k \in DOMAIN chats} : c.id = id

\* the saved contact name of chat c: the name on the chat unless it is
\* empty or the number, else the name on the contact
savedName(c) ==
  IF c.name # NoStr /\ c.name # c.number THEN c.name ELSE c.contactName

\* C25: when a contact, avatar or preview lookup of some chat throws, the
\* listing has no error and has one entry per listed chat; in the entry of
\* the chat exactly the fields fed by the failed lookup have their defaults
\* (a failed contact lookup also leaves the avatar unset), and every other
\* field of it and every other entry is as without the failure.
C25_FailureIsolated ==
  \A op \in ListOps :
    Listed(op) =>
      /\ Len(reply.chats) = Len(listedChats(op))
      /\ {reply.chats[k].id : k \in DOMAIN reply.chats}
           = {listedChats(op)[k].id : k \in DOMAIN listedChats(op)}
      /\ \A k \in DOMAIN reply.chats :
           LET e == reply.chats[k]
               c == chatOf(e.id)
               F == e.failed \cup e.timedOut
           IN /\ e.number = c.number
              /\ e.unreadCount = c.unreadCount
              /\ e.timestamp = c.timestamp
              /\ IF op = "get-all-chats"
                 THEN e.name = IF "contact" \in F
                               THEN Or(c.name, <<"Unknown", 0>>)
                               ELSE Or(c.pushname,
                                       Or(c.contactName, c.number))
                 ELSE /\ e.whatsappName = IF "contact" \in F THEN NoStr
                                          ELSE c.pushname
                      /\ e.profilePicUrl = IF F \cap {"contact", "pic"} # {}
                                           THEN NoStr ELSE PicUrl
                      /\ e.lastMessage = IF "preview" \in F THEN NoStr
                                         ELSE preview(c.latest)
                      /\ e.name = IF "contact" \in F
                                  THEN Or(c.name, c.number)
                                  ELSE Or(savedName(c),
                                          Or(c.pushname, c.number))

\* two chats listed by get-unread-chats: the contact lookup of the first
\* threw, the second has every field
C25_Witness ==
  /\ Listed("get-unread-chats")
  /\ Len(reply.chats) = 2
  /\ reply.chats[1].failed = {"contact"}
  /\ reply.chats[1].whatsappName = NoStr
  /\ reply.chats[2].failed = {}
  /\ reply.chats[2].whatsappName = Pushname
  /\ reply.chats[2].profilePicUrl = PicUrl

\* C26: in both listings the name of an entry whose contact lookup
\* succeeded is the saved contact name if there is one, else the pushname
\* if there is one, else the number.
C26_DisplayNameOrder ==
  \A op \in ListOps :
    Listed(op) =>
      \A k \in DOMAIN reply.chats :
        LET e == reply.chats[k]
            c == chatOf(e.id)
        IN "contact" \notin e.failed \cup e.timedOut =>
             e.name = Or(savedName(c), Or(c.pushname, c.number))

\* chat.timestamp > oneDayAgo with the timestamps of the model: 0 and 1 are
\* more than 24 hours ago
OneDayAgo == 1

\* C27: get-unread-chats lists exactly the non-broadcast chats with unread
\* messages or with activity in the last 24 hours.
C27_UnreadOrRecentOnly ==
  Listed("get-unread-chats") =>
    {reply.chats[k].id : k \in DOMAIN reply.chats}
      = {chats[k].id : k \in {j \in DOMAIN chats :
                                /\ chats[j].id # Broadcast
                                /\ \/ chats[j].unreadCount > 0
                                   \/ chats[j].timestamp > OneDayAgo}}

\* C28: every listing of chats is without the status@broadcast chat and in
\* non-increasing order of timestamp, a missing timestamp being 0.
C28_NoBroadcastSortedDescending ==
  \A op \in ListOps :
    Listed(op) =>
      /\ \A k \in DOMAIN reply.chats : reply.chats[k].id # Broadcast
      /\ \A i, j \in DOMAIN reply.chats :
           i < j => reply.chats[i].timestamp >= reply.chats[j].timestamp

\* the backend gives a chat without timestamp before a newer one: the
\* listing has the two chats, the newer first
C28_Witness ==
  /\ Listed("get-unread-chats")
  /\ Len(chats) = 2
  /\ chats[1].timestamp = 0
  /\ chats[2].timestamp = 2
  /\ Len(reply.chats) = 2
  /\ reply.chats[1].id = chats[2].id
  /\ reply.chats[2].timestamp = 0

\* print-with-setup has returned the results of its loop
Printed ==
  /\ Idle
  /\ reply.op = "print-with-setup"
  /\ reply.error = ""

\* the handler invocations for filePath
dispatchesOf(filePath) ==
  {k \in DOMAIN reply.dispatched : reply.dispatched[k][1] = filePath}

\* C29: with a printer resolved, print-with-setup returns one result per
\* file path, in input order; a missing file has "File not found" and no
\* handler was invoked for it; every file on disk was handed to a handler
\* once; a handler that failed has the error in the result of its file,
\* and a file whose handler did not fail has success.
C29_PrintResults ==
  Printed =>
    LET fp == reply.filePaths
        rs == reply.results
    IN /\ Len(rs) = Len(fp)
       /\ \A i \in DOMAIN fp :
            /\ rs[i][1] = fp[i]
            /\ IF fp[i] \notin disk
               THEN /\ rs[i][2] = "File not found"
                    /\ dispatchesOf(fp[i]) = {}
               ELSE /\ Cardinality(dispatchesOf(fp[i])) = 1
                    /\ \A k \in dispatchesOf(fp[i]) :
                         rs[i][2] = IF reply.dispatched[k][3] = "ok"
                                    THEN "success" ELSE "error"

\* a user action of the renderer has ended
UiEnded == ui.pc = "done"

\* C30: a user action (download, print, delete, open file, reconnect,
\* logout) that ended in a failure has shown an error or a warning, and a
\* download, print or delete that ended in a success has shown its
\* acknowledgment.
C30_NoSilentFailure ==
  UiEnded =>
    /\ ui.result = "error" => ui.toasts \cap {"error", "warning"} # {}
    /\ ui.result = "success" /\ ui.action \in {"download", "print", "delete"}
         => "success" \in ui.toasts

\* the clients that the retry sequence of attempt c constructed
successors(c) == {d \in ClientIds : creator[d] = <<"retry", c>>}

\* the attempts whose retry sequence ran to its end
Retried == {c \in ClientIds : retryPc[c] = "done"}

\* C31: the retry sequence of an initialization attempt runs at most once,
\* also when the timer and the failed initialize() both call doRetry: an
\* attempt has at most one successor client, and "retrying" and "error"
\* together were sent once per attempt whose retry sequence ended.
C31_RetryOnce ==
  /\ \A c \in ClientIds : Cardinality(successors(c)) <= 1
  /\ statusCount["retrying"] + statusCount["error"] = Cardinality(Retried)
  /\ statusCount["retrying"] =
       Cardinality({c \in Retried : successors(c) # {}})

\* the timer and the catch block both called doRetry for an attempt whose
\* retry sequence ended
C31_Witness ==
  \E c \in ClientIds : retryCalls[c] = 2 /\ retryPc[c] = "done"

\* s is an initial stretch of t
isPrefix(s, t) == Len(s) <= Len(t) /\ SubSeq(t, 1, Len(s)) = s

\* the order of a retry that constructs the next client, with or without
\* the removal of the auth-storage directory
RetryOrder(clears) ==
  <<"destroy", "wait">> \o (IF clears THEN <<"rmSync">> ELSE <<>>)
    \o <<"cleanupStaleLockFiles", "retrying", "initWhatsApp">>

\* C32: the steps of a retry run in the order destroy, grace wait, removal
\* of the auth-storage directory (if applicable), lock cleanup, "retrying",
\* construction of the next client with attempt + 1; a client constructed
\* by a retry exists only after the destroy of the previous client has
\* settled (torn down, or the destroy threw) and the lock cleanup ran.
C32_RetryOrder ==
  \A c \in ClientIds :
    /\ \/ \E clears \in BOOLEAN : isPrefix(retryLog[c], RetryOrder(clears))
       \/ retryLog[c] = <<"destroy", "wait", "error">>
    /\ \A d \in successors(c) :
         /\ attempt[d] = attempt[c] + 1
         /\ \E clears \in BOOLEAN : retryLog[c] = RetryOrder(clears)
         /\ phase[c] = "destroyed" \/ destroyFailures > 0

\* a retry that removed the auth-storage directory constructed the next
\* client, and a later one that kept it constructed the one after
C32_Witness ==
  \E c, d \in ClientIds :
    /\ successors(c) # {} /\ retryLog[c] = RetryOrder(TRUE)
    /\ successors(d) # {} /\ retryLog[d] = RetryOrder(FALSE)

\* a step in which a retry, a reconnect or the delayed restart of a logout
\* starts the session again
Restarts ==
  \/ statusCount'["retrying"] # statusCount["retrying"]
  \/ \E m \in HandlerIds :
       \/ handler[m].result # "success" /\ handler'[m].result = "success"
                                        /\ handler'[m].kind = "reconnect"
       \/ handler[m].pc = "delay" /\ handler'[m].pc = "done"

\* a step in which initialize() is called on client c
Initializes(c) == initState[c] # "pending" /\ initState'[c] = "pending"

\* C33: every retry, reconnect and logout restart constructs a new client
\* object, which becomes the current one; initialize() is called on a
\* client only in the step that constructs it, hence once per client and
\* never on a client that was destroyed.
C33_FreshClient ==
  [][/\ Restarts => /\ numClients' = numClients + 1
                     /\ whatsappClient' = numClients'
                     /\ phase[numClients'] = "none"
                     /\ Initializes(numClients')
     /\ \A c \in ClientIds :
          Initializes(c) => /\ initState[c] = "none"
                            /\ c = numClients'
                            /\ numClients' = numClients + 1
                            /\ phase'[c] = "new"]_vars

\* the application start, a retry, a reconnect and a logout each
\* constructed a client
C33_Witness ==
  \A kind \in {"start", "retry", "reconnect", "logout"} :
    \E c \in ClientIds : Constructed(c) /\ creator[c][1] = kind

\* a reconnect or a logout constructed a client after c
ManuallyReplaced(c) ==
  \E d \in ClientIds :
    d > c /\ Constructed(d) /\ creator[d][1] \in {"reconnect", "logout"}

\* C34: the timer or the late initialize() failure of a client that a
\* reconnect or a logout has replaced does not start that client's retry
\* sequence, which would destroy the current client, may delete the
\* auth-storage directory, and emits "retrying" and constructs a client.
C34_StaleTriggerInert ==
  [][\A c \in ClientIds :
       ManuallyReplaced(c) /\ retryPc[c] = "idle" => retryPc'[c] = "idle"]_vars

\* C35: while the readiness flag is true, the current client is one whose
\* latest lifecycle event is "ready" and whose browser is not torn down.
C35_ReadyMeansLive == isClientReady => phase[whatsappClient] = "ready"

\* every selectChat has run to its end
Settled == ui.pending = {}

\* C36: once every pending selectChat has settled, the files of
\* currentFiles and the selected files belong to the chat currentChatId
\* (none when no chat is selected).
C36_FilesOfCurrentChat ==
  Settled => \A f \in ui.currentFiles \cup ui.selectedFiles :
               f[1] = ui.currentChatId

\* C39: at most one getUnreadChats request is in flight, and the guard
\* isRefreshing is set exactly while one is: whatever way the request
\* settles, the guard is released and the next refresh is admitted.
C39_RefreshGuard ==
  /\ ui.inFlight <= 1
  /\ ui.isRefreshing <=> ui.inFlight = 1

\* a refresh was dropped while one was pending, a request was rejected,
\* and a refresh after it is in flight
C39_Witness ==
  /\ ui.dropped > 0
  /\ "rejects" \in ui.settled
  /\ ui.inFlight = 1

\* the file list holds message id as downloaded
listedDownloaded(id) ==
  \E j \in DOMAIN listing.files :
    /\ listing.files[j].messageId = id
    /\ listing.files[j].isDownloaded
    /\ listing.files[j].localPath \in disk

\* C37: when download-all-files has returned and get-chat-files is answered
\* next, every message with a success entry is in the file list as
\* downloaded, under the path of a file on disk (the only files on disk
\* are those the download wrote).
C37_BulkRoundTrip ==
  (reply.op = "download-all-files" /\ listing.taken /\ ~dirty) =>
    \A k \in DOMAIN reply.results :
      reply.results[k][2] = "success" => listedDownloaded(reply.results[k][1])

\* the listener announced a message it downloaded, and get-chat-files was
\* answered after that
AutoDownloadListed ==
  /\ reply.op = "whatsapp:new-message"
  /\ reply.localPath # NoPath
  /\ listing.taken
  /\ ~dirty

\* C38: when the listener has downloaded a message and get-chat-files is
\* answered afterwards, the file list holds the message as downloaded
\* under the path that the new-message notification carried.
C38_AutoDownloadRoundTrip ==
  AutoDownloadListed =>
    \E j \in DOMAIN listing.files :
      /\ listing.files[j].messageId = reply.messageId
      /\ listing.files[j].isDownloaded
      /\ listing.files[j].localPath = reply.localPath

\* a message without a file name in its metadata was downloaded by the
\* listener under the synthesized name and listed afterwards
C38_Witness ==
  /\ AutoDownloadListed
  /\ reply.localPath[2][1] = "type"

\* the requests that were queued
Queued == (1..thumb.requests) \ thumb.answered

\* the requests that were resolved by processThumbQueue, in order
resolvedIds == [k \in DOMAIN thumb.resolved |-> thumb.resolved[k][1]]

\* C40: at most one thumbnail render is in progress; the queued requests
\* are rendered and resolved in arrival order; no request is resolved
\* twice, only queued requests are resolved, and when no render is in
\* progress every queued request has been resolved.
C40_ThumbnailQueue ==
  /\ Cardinality(thumb.rendering) <= 1
  /\ thumb.busy <=> thumb.rendering # {}
  /\ \A j, k \in DOMAIN resolvedIds : j < k => resolvedIds[j] < resolvedIds[k]
  /\ \A k \in DOMAIN resolvedIds : resolvedIds[k] \in Queued
  /\ \A r \in thumb.rendering :
       /\ \A k \in DOMAIN resolvedIds : resolvedIds[k] < r.request[1]
       /\ \A k \in DOMAIN thumb.queue : r.request[1] < thumb.queue[k][1]
  /\ ~thumb.busy =>
       /\ thumb.queue = <<>>
       /\ Queued = {resolvedIds[k] : k \in DOMAIN resolvedIds}

\* after a render that failed, a render is in progress with two requests
\* waiting behind it
C40_Witness ==
  /\ Len(thumb.resolved) >= 1
  /\ thumb.resolved[1][2] = "error"
  /\ thumb.rendering # {}
  /\ Len(thumb.queue) >= 2
====
